---- MODULE Spec2Model ----
(***************************************************************************)
(* A model of the file-receive server of local-file-transfer:              *)
(*   backend/src/protocol.cpp            the JSON message codec            *)
(*   backend/src/fileTransferServer.cpp  listener, handlers, registry      *)
(*   networkDiscovery.cpp                the listener for UDP responses    *)
(*                                                                         *)
(* Modelling conventions.                                                  *)
(*  - A JSON value is a record [k, s, n]: k is its JSON kind.  An object   *)
(*    used as a payload is a record over the keys in PayloadKeys; a key    *)
(*    the object does not hold has the value Absent.                       *)
(*  - A TCP connection is a conn in Conns; the descriptor number accept()  *)
(*    returns for it is the lowest free number, as POSIX has it, so a      *)
(*    closed number is given out again.                                    *)
(*  - A socket is a reliable byte stream of tokens.  A control text is one *)
(*    token, a body byte is one token.  The sends pass no MSG_NOSIGNAL    *)
(*    and SIGPIPE has its default action: a send() on a socket that has   *)
(*    taken an RST after the peer's FIN, or whose error was already       *)
(*    reported, terminates the process.                                   *)
(*  - Every critical section on clients_mutex is one step.                 *)
(*  - Sizes are far below 2^64 / 100: no uint64_t arithmetic wraps.         *)
(*  - is_running is a plain bool read by several threads; its reads are    *)
(*    taken to see the last value written.                                 *)
(***************************************************************************)
EXTENDS Integers, Sequences, FiniteSets, TLC

(***************************************************************************)
(* Bounds of the model.                                                    *)
(***************************************************************************)
NumConns == 2
MaxSize == 2
\* largest file in the runs that follow the progress reports
MaxProgress == 6

(***************************************************************************)
(* Program constants.                                                      *)
(***************************************************************************)
BUFFER_SIZE == 8192

Conns == 1..NumConns
Fds == 1..NumConns

(***************************************************************************)
(* JSON values.                                                            *)
(***************************************************************************)
JStr(s) == [k |-> "str", s |-> s, n |-> 0]
JNum(n) == [k |-> "num", s |-> "", n |-> n]
JNull == [k |-> "null", s |-> "", n |-> 0]
Absent == [k |-> "absent", s |-> "", n |-> 0]

\* operator[] of a non-const json on a key the object lacks inserts null
Get(v) == IF v.k = "absent" THEN JNull ELSE v

NoFields ==
    [filename |-> Absent, filesize |-> Absent, checksum |-> Absent,
     reason |-> Absent, percent |-> Absent, service |-> Absent,
     chunk_data |-> Absent, chunk_size |-> Absent, chunk_index |-> Absent]

JObj(f) == [k |-> "obj", f |-> f]
JNullData == [k |-> "null", f |-> NoFields]
JNoData == [k |-> "absent", f |-> NoFields]

\* the enumerators of MessageType
MessageTypes ==
    {"DISCOVERY", "DISCOVERY_RESPONSE", "FILE_INFO", "FILE_CHUNK",
     "TRANSFER_PROGRESS", "DISCONNECT", "ERROR"}

\* what a MessageType object that was never assigned may hold
Indeterminate == MessageTypes \cup {"OTHER"}

(***************************************************************************)
(* The wire form: the top-level JSON object of one text, or a text that    *)
(* json::parse rejects (valid = FALSE).                                    *)
(***************************************************************************)
Wire(type, data, cd, cs, ci) ==
    [valid |-> TRUE, type |-> type, data |-> data,
     chunk_data |-> cd, chunk_size |-> cs, chunk_index |-> ci]

NotJson ==
    [valid |-> FALSE, type |-> Absent, data |-> JNoData,
     chunk_data |-> Absent, chunk_size |-> Absent, chunk_index |-> Absent]

\* serialize as it would be if the flattening left chunk_index out
serialize_noindex(m) ==
    IF m.type = "FILE_CHUNK"
    THEN Wire(JStr("FILE_CHUNK"), JNoData, m.data.f.chunk_data,
              m.data.f.chunk_size, Absent)
    ELSE Wire(JStr(m.type), m.data, Absent, Absent, Absent)

\* TransferMessage::serialize (a FILE_CHUNK is flattened, lines 28-35)
serialize(m) ==
    IF m.type = "FILE_CHUNK"
    THEN Wire(JStr("FILE_CHUNK"), JNoData, m.data.f.chunk_data,
              m.data.f.chunk_size, m.data.f.chunk_index)
    ELSE Wire(JStr(m.type), m.data, Absent, Absent, Absent)

\* a json exception leaves deserialize (parse_error, type_error)
Thrown(what) == [exc |-> what, type |-> "OTHER", data |-> JNullData]

\* TransferMessage::deserialize; u is what the unassigned msg.type holds
deserialize(w, u) ==
    IF ~w.valid THEN Thrown("parse_error")
    ELSE IF w.type.k # "str" THEN Thrown("type_error")
    ELSE LET t == IF w.type.s \in MessageTypes THEN w.type.s ELSE u
         IN  IF t = "FILE_CHUNK"
             THEN [exc |-> "none", type |-> t,
                   data |-> JObj([NoFields EXCEPT
                       !.chunk_data = Get(w.chunk_data),
                       !.chunk_size = Get(w.chunk_size),
                       !.chunk_index = Get(w.chunk_index)])]
             ELSE [exc |-> "none", type |-> t,
                   data |-> IF w.data.k = "absent" THEN JNullData
                            ELSE w.data]

(***************************************************************************)
(* Tokens of a connection's byte stream, and what a peer sends.            *)
(*   kind "text": one control text, built from template t (and name, size  *)
(*                for the templates that announce a file)                  *)
(*   kind "byte": body byte number pos of the peer's transfer number xfer  *)
(* The pos of a FILE_INFO text is the number of body bytes the peer sends  *)
(* after it; it is not on the wire.                                        *)
(* A peer's script also holds marks of what the peer does between sends.   *)
(***************************************************************************)
Text(t, c, x, name, size) ==
    [kind |-> "text", t |-> t, name |-> name, size |-> size,
     conn |-> c, xfer |-> x, pos |-> 0]

Byte(c, x, i) ==
    [kind |-> "byte", t |-> "", name |-> "", size |-> 0,
     conn |-> c, xfer |-> x, pos |-> i]

ZeroByte == Byte(0, 0, 0)

\* not sent: the client waits for an answer here (recv, sendFile line 112)
Await(c, x) ==
    [kind |-> "await", t |-> "", name |-> "", size |-> 0,
     conn |-> c, xfer |-> x, pos |-> 0]

\* not sent: the peer ends with a reset instead of a close
Rst(c) ==
    [kind |-> "rst", t |-> "", name |-> "", size |-> 0,
     conn |-> c, xfer |-> 0, pos |-> 0]

Body(c, x, n) == [i \in 1..n |-> Byte(c, x, i)]

Payload(f) == JObj(f)

\* FileTransferClient::sendFile builds and serializes the FILE_INFO message
FileInfoMessage(name, size) ==
    [type |-> "FILE_INFO",
     data |-> Payload([NoFields EXCEPT !.filename = JStr(name),
                                       !.filesize = JNum(size),
                                       !.checksum = JStr("")])]

\* FileTransferClient::disconnect sends an ERROR message
ClientDisconnectMessage ==
    [type |-> "ERROR",
     data |-> Payload([NoFields EXCEPT !.reason = JStr("client_disconnect")])]

\* the text of a token on the wire
WireOf(tok) ==
    CASE tok.t = "fi" -> serialize(FileInfoMessage(tok.name, tok.size))
      [] tok.t = "client_disconnect" -> serialize(ClientDisconnectMessage)
      [] tok.t = "disconnect" ->
            serialize([type |-> "DISCONNECT", data |-> JNullData])
      [] tok.t = "error_null" ->
            serialize([type |-> "ERROR", data |-> JNullData])
      [] tok.t = "progress" ->
            serialize([type |-> "TRANSFER_PROGRESS",
                       data |-> Payload([NoFields EXCEPT
                                            !.percent = JNum(50)])])
      [] tok.t = "bogus" ->
            Wire(JStr("BOGUS"), JNoData, Absent, Absent, Absent)
      [] tok.t = "notype" ->
            Wire(Absent, Payload([NoFields EXCEPT !.filename = JStr(tok.name)]),
                 Absent, Absent, Absent)
      [] tok.t = "fi_noname" ->
            Wire(JStr("FILE_INFO"),
                 Payload([NoFields EXCEPT !.filesize = JNum(tok.size)]),
                 Absent, Absent, Absent)
      [] tok.t = "fi_nosize" ->
            Wire(JStr("FILE_INFO"),
                 Payload([NoFields EXCEPT !.filename = JStr(tok.name)]),
                 Absent, Absent, Absent)
      [] OTHER -> NotJson

\* the texts that fail to decode: not JSON, no type, FILE_INFO short of a field
Undecodable == {"garbage", "notype", "fi_noname", "fi_nosize"}

\* the text a recv() of the message loop hands to deserialize
TextOf(read) ==
    IF Len(read) = 1 /\ read[1].kind = "text" THEN WireOf(read[1]) ELSE NotJson

(***************************************************************************)
(* State.                                                                  *)
(***************************************************************************)
VARIABLES
    is_running,   \* FileTransferServer::is_running
    server_fd,    \* FileTransferServer::server_fd, -1 once closed
    bound,        \* bind() succeeded on server_fd
    clients,      \* FileTransferServer::clients, a sequence of ClientInfo
    apc,          \* where accept_thread is in acceptConnections
    acc,          \* accept loop's client_socket: the conn it just accepted
    spc,          \* where the caller of stop() is
    lastCall,     \* outcome of the last start() or stop() call
    connFd,       \* per conn: the descriptor accept() returned (0: none yet)
    fdt,          \* descriptor table: the conn a number refers to (0: closed)
    hpc,          \* per conn: where its handler thread is
    inbuf,        \* per conn: bytes sent by the peer and not yet read
    peer,         \* per conn: "idle" (yet to connect), "open", "closed" (FIN
                  \* sent), "reset", or "none" (no such client)
    script,       \* per conn: what the peer has still to send
    sent,         \* per conn: the statuses the server sent to the peer
    pread,        \* per conn: how many of them the peer has read
    fi,           \* per handler: file_info of the transfer in progress
    total,        \* per handler: receiveFile's total_received
    lastPct,      \* per handler: receiveFile's last_percentage
    ofs,          \* per handler: inode of receiveFile's output_file (0: none)
    disk,         \* working directory: file name -> inode (0: no such file)
    idata,        \* inode -> content
    cbProg,       \* per conn: percentages given to progress_callback
    cbFile,       \* per conn: calls of file_received_callback
    lastRecv,     \* per conn: what the message loop's last recv() decoded
    ackBase,      \* per handler: Len(sent) when the FILE_INFO was decoded
    serr,         \* per conn: error state of the server's socket: "none",
                  \* "due" (an RST is on its way), "epipe", "reset", "dead"
    killed,       \* the server process was terminated by SIGPIPE
    codec,        \* a message on its way through serialize and deserialize
    disc,         \* the NetworkDiscovery object and the calls of its callback
    mtx           \* clients_mutex: its holder and where each thread is about it

srvVars == <<is_running, server_fd, bound, clients, apc, acc>>
apiVars == <<spc, lastCall>>
sockVars == <<connFd, fdt, inbuf, peer, script, sent, pread>>
locVars == <<fi, total, lastPct, ofs, ackBase>>
diskVars == <<disk, idata>>
cbVars == <<cbProg, cbFile>>
vars == <<srvVars, apiVars, sockVars, hpc, locVars, diskVars, cbVars,
          lastRecv, codec, disc, mtx, serr, killed>>

\* the name the client on conn c announces when names are distinct
NameOf(c) == <<"a.txt", "b.txt", "c.txt", "d.txt">>[c]
FileNames == {NameOf(c) : c \in Conns}
\* a name under a directory that does not exist: the ofstream does not open
Unopenable == {"nodir/x"}
Inodes == 1..(NumConns + Cardinality(FileNames))

NoFile == [filename |-> "", filesize |-> 0, xfer |-> 0, sends |-> 0]
NoRecv == [t |-> "", type |-> "", exc |-> ""]

Min(a, b) == IF a < b THEN a ELSE b

(***************************************************************************)
(* ClientInfo and the registry.                                            *)
(***************************************************************************)
ClientInfo(fd, c) ==
    [socket_fd |-> fd, peer |-> c, handler_thread |-> c, is_active |-> TRUE,
     bytes_received |-> 0, current_filename |-> ""]

\* index of the first entry with this socket_fd, 0 when there is none
FindClient(cl, fd) ==
    IF \E i \in 1..Len(cl) : cl[i].socket_fd = fd
    THEN CHOOSE i \in 1..Len(cl) :
            /\ cl[i].socket_fd = fd
            /\ \A j \in 1..(i - 1) : cl[j].socket_fd # fd
    ELSE 0

Erase(cl, i) == [j \in 1..(Len(cl) - 1) |-> IF j < i THEN cl[j] ELSE cl[j + 1]]

(***************************************************************************)
(* Sockets.                                                                *)
(***************************************************************************)
\* accept() and socket() return the lowest descriptor number not in use
LowestFree(t) == CHOOSE f \in Fds : t[f] = 0 /\ \A g \in Fds : g < f => t[g] # 0

\* what recv() on descriptor fd finds: queued bytes first, then the socket's
\* error, then the peer's FIN
RecvOutcome(fd) ==
    LET d == fdt[fd]
    IN  IF d = 0 THEN "error"
        ELSE IF inbuf[d] # <<>> THEN "data"
        ELSE IF serr[d] \in {"epipe", "reset", "dead"} THEN "error"
        ELSE IF peer[d] = "closed" THEN "eof"
        ELSE "timeout"

\* send() raises SIGPIPE: the socket took an RST after the peer's FIN, or its
\* error was reported before
SigPipe(fd) == fdt[fd] # 0 /\ serr[fdt[fd]] \in {"epipe", "dead"}

\* the socket's error state after a send(): a pending ECONNRESET is reported
\* and cleared; data sent to a peer that has closed will draw an RST
SendErr(fd) ==
    LET d == fdt[fd]
    IN  IF d = 0 THEN serr
        ELSE IF serr[d] = "reset" THEN [serr EXCEPT ![d] = "dead"]
        ELSE IF serr[d] = "none" /\ peer[d] = "closed"
        THEN [serr EXCEPT ![d] = "due"]
        ELSE serr

\* a send() whose status text never names a file
SendAnon(fd, status, name) ==
    LET d == fdt[fd]
    IN  IF d = 0 \/ serr[d] \notin {"none", "due"} THEN sent
        ELSE [sent EXCEPT ![d] = Append(@, [status |-> status, filename |-> ""])]

\* send() on descriptor fd: the statuses send() has taken for the peer the
\* number refers to
Send(fd, status, name) ==
    LET d == fdt[fd]
    IN  IF d = 0 \/ serr[d] \notin {"none", "due"} THEN sent
        ELSE [sent EXCEPT ![d] = Append(@, [status |-> status, filename |-> name])]

(***************************************************************************)
(* Files.                                                                  *)
(***************************************************************************)
InUse(d, o, i) == (\E nm \in FileNames : d[nm] = i) \/ (\E c \in Conns : o[c] = i)

FreshInode == CHOOSE i \in Inodes : ~InUse(disk, ofs, i)

\* the content of an inode nothing names or holds open is gone
Reclaim(d, o, dat) == [i \in Inodes |-> IF InUse(d, o, i) THEN dat[i] ELSE <<>>]

\* a write that ignores the offset and starts at the front of the file
WriteAtFront(old, pos, data) == data \o SubSeq(old, Len(data) + 1, Len(old))

\* write data at offset pos, zero-filling a hole
WriteAt(old, pos, data) ==
    LET n == IF Len(old) > pos + Len(data) THEN Len(old) ELSE pos + Len(data)
    IN  [i \in 1..n |->
            IF i > pos /\ i <= pos + Len(data) THEN data[i - pos]
            ELSE IF i <= Len(old) THEN old[i]
            ELSE ZeroByte]

\* the content of the file of this name, <<>> when there is none
FileContent(nm) == IF disk[nm] = 0 THEN <<>> ELSE idata[disk[nm]]

FileExists(nm) == nm \in FileNames /\ disk[nm] # 0

(***************************************************************************)
(* FileTransferServer::removeClient, as the change it makes.               *)
(***************************************************************************)
\* a removeClient that closes the descriptor whether it finds an entry or not
removeAndClose(cl, t, fd) ==
    LET i == FindClient(cl, fd)
    IN  [clients |-> IF i = 0 THEN cl ELSE Erase(cl, i),
         fdt |-> IF fd \in Fds THEN [t EXCEPT ![fd] = 0] ELSE t]

\* lines 437-468 on a registry cl and a descriptor table t: the first entry
\* with this socket_fd is erased and its socket closed (an entry found for
\* fd >= 0 has socket_fd >= 0); without such an entry nothing is done
removeClient(cl, t, fd) ==
    LET i == FindClient(cl, fd)
    IN  IF i = 0 THEN [clients |-> cl, fdt |-> t]
        ELSE [clients |-> Erase(cl, i),
              fdt |-> IF fd \in Fds THEN [t EXCEPT ![fd] = 0] ELSE t]

RemovedClients(fd) == removeClient(clients, fdt, fd).clients

\* the descriptor table after removeClient(fd): the entry's socket is closed
RemovedFdt(fd) == removeClient(clients, fdt, fd).fdt

(***************************************************************************)
(* FileTransferServer::handleClient, the message loop.                     *)
(***************************************************************************)
\* a switch around which no exception is caught: a throw ends the loop
DispatchUncaught(msg) ==
    IF msg.exc # "none" THEN "disconnect"
    ELSE IF msg.type = "FILE_INFO"
    THEN IF /\ Get(msg.data.f.filename).k = "str"
            /\ Get(msg.data.f.filesize).k = "num"
         THEN "file" ELSE "disconnect"
    ELSE IF msg.type = "DISCONNECT" THEN "disconnect"
    ELSE IF msg.type = "ERROR"
    THEN IF msg.data.k = "obj" THEN "stay" ELSE "disconnect"
    ELSE "stay"

\* whether deserialize leaves msg.type unassigned for this text
TypeUnassigned(w) == w.valid /\ w.type.k = "str" /\ w.type.s \notin MessageTypes

\* what the switch on msg.type does with a decoded message:
\* "file" (FILE_INFO with its fields), "disconnect", "stay", "throw"
Dispatch(msg) ==
    IF msg.exc # "none" THEN "throw"
    ELSE IF msg.type = "FILE_INFO"
    THEN IF /\ Get(msg.data.f.filename).k = "str"
            /\ Get(msg.data.f.filesize).k = "num"
         THEN "file" ELSE "throw"
    ELSE IF msg.type = "DISCONNECT" THEN "disconnect"
    ELSE IF msg.type = "ERROR"
    THEN IF msg.data.k = "obj" THEN "stay" ELSE "throw"
    ELSE "stay"

Decoded(read, msg) ==
    [t |-> IF Len(read) = 1 /\ read[1].kind = "text" THEN read[1].t ELSE "junk",
     type |-> IF msg.exc = "none" THEN msg.type ELSE "",
     exc |-> IF Dispatch(msg) = "throw" THEN "caught" ELSE "none"]

HandleRead(c, d, read, msg) ==
    /\ inbuf' = [inbuf EXCEPT ![d] = SubSeq(@, Len(read) + 1, Len(@))]
    /\ lastRecv' = [lastRecv EXCEPT ![c] = Decoded(read, msg)]
    /\ CASE Dispatch(msg) = "file" ->
              /\ fi' = [fi EXCEPT ![c] =
                            [filename |-> msg.data.f.filename.s,
                             filesize |-> msg.data.f.filesize.n,
                             xfer |-> read[1].xfer,
                             sends |-> read[1].pos]]
              /\ ackBase' = [ackBase EXCEPT ![c] = Len(sent[c])]
              /\ hpc' = [hpc EXCEPT ![c] = "fi_update"]
         [] Dispatch(msg) = "disconnect" ->
              /\ hpc' = [hpc EXCEPT ![c] = "remove"]
              /\ UNCHANGED <<fi, ackBase>>
         [] OTHER -> UNCHANGED <<hpc, fi, ackBase>>
    /\ UNCHANGED <<srvVars, apiVars, connFd, fdt, peer, script, sent, pread,
                   total, lastPct, ofs, diskVars, cbVars, codec, disc, mtx, serr, killed>>

\* a loop that reads on after recv() failed or returned 0
StayInLoop(c) ==
    /\ lastRecv' = [lastRecv EXCEPT ![c] = NoRecv]
    /\ UNCHANGED <<srvVars, apiVars, sockVars, hpc, locVars, diskVars, cbVars,
                   codec, disc, mtx, serr, killed>>

\* lines 245-263 and the loop test at 242: break
LeaveLoop(c) ==
    /\ hpc' = [hpc EXCEPT ![c] = "remove"]
    /\ lastRecv' = [lastRecv EXCEPT ![c] = NoRecv]
    /\ UNCHANGED <<srvVars, apiVars, sockVars, locVars, diskVars, cbVars,
                   codec, disc, mtx, serr, killed>>

\* a read timeout that ends the handler's loop
TimeoutFails(c) == LeaveLoop(c)

\* recv returns -1 with EAGAIN or EWOULDBLOCK: continue (246-249, 370-372)
Timeout(c) == UNCHANGED vars

H_Recv(c) ==
    /\ ~killed
    /\ hpc[c] = "recv"
    /\ IF ~is_running THEN LeaveLoop(c)
       ELSE CASE RecvOutcome(connFd[c]) = "timeout" -> Timeout(c)
              [] RecvOutcome(connFd[c]) \in {"error", "eof"} -> LeaveLoop(c)
              [] OTHER ->
                   LET d == fdt[connFd[c]]
                   IN  \E k \in 1..Len(inbuf[d]) :
                         LET read == SubSeq(inbuf[d], 1, k)
                             w == TextOf(read)
                         IN  \E u \in IF TypeUnassigned(w) THEN Indeterminate
                                      ELSE {"OTHER"} :
                                HandleRead(c, d, read, deserialize(w, u))

\* lines 280-289: record the announced file against this session
H_FiUpdate(c) ==
    /\ ~killed
    /\ hpc[c] = "fi_update"
    /\ LET i == FindClient(clients, connFd[c])
       IN  clients' = IF i = 0 THEN clients
                      ELSE [clients EXCEPT ![i].current_filename = fi[c].filename,
                                           ![i].bytes_received = 0]
    /\ hpc' = [hpc EXCEPT ![c] = "send_ready"]
    /\ UNCHANGED <<is_running, server_fd, bound, apc, acc, apiVars, sockVars,
                   locVars, diskVars, cbVars, lastRecv, codec, disc, mtx, serr, killed>>

\* send() ends the process with SIGPIPE
Terminated ==
    /\ killed' = TRUE
    /\ UNCHANGED <<sent, serr>>

\* a send() of c's handler that returns, with the bytes taken or with an error
Sends(c, status, name) ==
    /\ sent' = Send(connFd[c], status, name)
    /\ serr' = SendErr(connFd[c])
    /\ UNCHANGED killed

\* lines 291-294
H_SendReady(c) ==
    /\ ~killed
    /\ hpc[c] = "send_ready"
    /\ IF SigPipe(connFd[c])
       THEN Terminated /\ UNCHANGED hpc
       ELSE /\ Sends(c, "ready", "")
            /\ hpc' = [hpc EXCEPT ![c] = "rf_open"]
    /\ UNCHANGED <<srvVars, apiVars, connFd, fdt, inbuf, peer, script, pread,
                   locVars, diskVars, cbVars, lastRecv, codec, disc, mtx>>

(***************************************************************************)
(* FileTransferServer::receiveFile.                                        *)
(***************************************************************************)
\* the locals of receiveFile after it returned
Returned(c) ==
    /\ total' = [total EXCEPT ![c] = 0]
    /\ lastPct' = [lastPct EXCEPT ![c] = -1]
    /\ hpc' = [hpc EXCEPT ![c] = "recv"]

\* a receiveFile that returns without a word when the output does not open
H_OpenSilent(c) ==
    /\ ~killed
    /\ hpc[c] = "rf_open"
    /\ IF fi[c].filename \notin FileNames
       THEN /\ Returned(c)
            /\ UNCHANGED <<ofs, diskVars, sent, serr, killed>>
       ELSE LET nm == fi[c].filename
                i == IF disk[nm] = 0 THEN FreshInode ELSE disk[nm]
            IN  /\ disk' = [disk EXCEPT ![nm] = i]
                /\ idata' = [idata EXCEPT ![i] = <<>>]
                /\ ofs' = [ofs EXCEPT ![c] = i]
                /\ IF SigPipe(connFd[c])
                   THEN Terminated /\ UNCHANGED <<total, lastPct, hpc>>
                   ELSE /\ Sends(c, "receiving", "")
                        /\ total' = [total EXCEPT ![c] = 0]
                        /\ lastPct' = [lastPct EXCEPT ![c] = -1]
                        /\ hpc' = [hpc EXCEPT ![c] = "rf_recv"]
    /\ UNCHANGED <<srvVars, apiVars, connFd, fdt, inbuf, peer, script, pread,
                   fi, ackBase, cbVars, lastRecv, codec, disc, mtx>>

\* lines 338-355: open the output, answer "receiving" or "error"
H_Open(c) ==
    /\ ~killed
    /\ hpc[c] = "rf_open"
    /\ IF fi[c].filename \notin FileNames
       THEN /\ IF SigPipe(connFd[c])
               THEN Terminated /\ UNCHANGED <<total, lastPct, hpc>>
               ELSE Sends(c, "error", "") /\ Returned(c)
            /\ UNCHANGED <<ofs, diskVars>>
       ELSE LET nm == fi[c].filename
                i == IF disk[nm] = 0 THEN FreshInode ELSE disk[nm]
            IN  /\ disk' = [disk EXCEPT ![nm] = i]
                /\ idata' = [idata EXCEPT ![i] = <<>>]
                /\ ofs' = [ofs EXCEPT ![c] = i]
                /\ IF SigPipe(connFd[c])
                   THEN Terminated /\ UNCHANGED <<total, lastPct, hpc>>
                   ELSE /\ Sends(c, "receiving", "")
                        /\ total' = [total EXCEPT ![c] = 0]
                        /\ lastPct' = [lastPct EXCEPT ![c] = -1]
                        /\ hpc' = [hpc EXCEPT ![c] = "rf_recv"]
    /\ UNCHANGED <<srvVars, apiVars, connFd, fdt, inbuf, peer, script, pread,
                   fi, ackBase, cbVars, lastRecv, codec, disc, mtx>>

\* a read size that is always the whole buffer
to_receive_buffer(remaining) == BUFFER_SIZE

\* line 365
to_receive(remaining) == IF remaining < BUFFER_SIZE THEN remaining ELSE BUFFER_SIZE

\* an abort that closes the output and leaves the file where it is
KeepOutput(c) ==
    /\ ofs' = [ofs EXCEPT ![c] = 0]
    /\ UNCHANGED <<disk, idata>>

\* lines 374-376, 381-383 and 429: close the output and delete it
AbortOutput(c) ==
    LET o == [ofs EXCEPT ![c] = 0]
        d == [disk EXCEPT ![fi[c].filename] = 0]
    IN  /\ ofs' = o
        /\ disk' = d
        /\ idata' = Reclaim(d, o, idata)

\* lines 363-387: one pass of the receive loop up to output_file.write
H_RfRecv(c) ==
    /\ ~killed
    /\ hpc[c] = "rf_recv"
    /\ IF ~(is_running /\ total[c] < fi[c].filesize)
       THEN /\ hpc' = [hpc EXCEPT ![c] = "rf_close"]
            /\ UNCHANGED <<srvVars, apiVars, sockVars, locVars, diskVars,
                           cbVars, lastRecv, codec, disc, mtx, serr, killed>>
       ELSE CASE RecvOutcome(connFd[c]) = "timeout" -> Timeout(c)
              [] RecvOutcome(connFd[c]) \in {"error", "eof"} ->
                   /\ AbortOutput(c)
                   /\ Returned(c)
                   /\ UNCHANGED <<srvVars, apiVars, sockVars, fi, ackBase,
                                  cbVars, lastRecv, codec, disc, mtx, serr, killed>>
              [] OTHER ->
                   LET d == fdt[connFd[c]]
                       most == Min(to_receive(fi[c].filesize - total[c]),
                                   Len(inbuf[d]))
                   IN  \E k \in 1..most :
                         /\ inbuf' = [inbuf EXCEPT ![d] = SubSeq(@, k + 1, Len(@))]
                         /\ idata' = [idata EXCEPT ![ofs[c]] =
                                WriteAt(@, total[c], SubSeq(inbuf[d], 1, k))]
                         /\ total' = [total EXCEPT ![c] = @ + k]
                         /\ hpc' = [hpc EXCEPT ![c] = "rf_update"]
                         /\ UNCHANGED <<srvVars, apiVars, connFd, fdt, peer,
                                        script, sent, pread, fi, lastPct, ofs,
                                        ackBase,
                                        disk, cbVars, lastRecv, codec, disc, mtx, serr, killed>>

\* the share in thousandths
permille(received, filesize) == (received * 1000) \div filesize

\* line 399
percentage(received, filesize) == (received * 100) \div filesize

\* lines 389-408: publish the count, report a new multiple of ten
H_RfUpdate(c) ==
    /\ ~killed
    /\ hpc[c] = "rf_update"
    /\ LET i == FindClient(clients, connFd[c])
       IN  clients' = IF i = 0 THEN clients
                      ELSE [clients EXCEPT ![i].bytes_received = total[c]]
    /\ LET pct == percentage(total[c], fi[c].filesize)
       IN  IF pct # lastPct[c] /\ pct % 10 = 0
           THEN /\ lastPct' = [lastPct EXCEPT ![c] = pct]
                /\ cbProg' = [cbProg EXCEPT ![c] = Append(@, pct)]
           ELSE UNCHANGED <<lastPct, cbProg>>
    /\ hpc' = [hpc EXCEPT ![c] = "rf_recv"]
    /\ UNCHANGED <<is_running, server_fd, bound, apc, acc, apiVars, sockVars,
                   fi, total, ofs, ackBase, diskVars, cbFile, lastRecv, codec, disc, mtx, serr, killed>>

\* a close that counts a transfer as complete only when bytes arrived
H_RfCloseNonEmpty(c) ==
    /\ ~killed
    /\ hpc[c] = "rf_close"
    /\ IF total[c] = fi[c].filesize /\ total[c] > 0
       THEN /\ ofs' = [ofs EXCEPT ![c] = 0]
            /\ idata' = Reclaim(disk, [ofs EXCEPT ![c] = 0], idata)
            /\ hpc' = [hpc EXCEPT ![c] = "rf_callback"]
            /\ UNCHANGED <<disk, total, lastPct>>
       ELSE /\ AbortOutput(c)
            /\ Returned(c)
    /\ UNCHANGED <<srvVars, apiVars, sockVars, fi, ackBase, cbVars, lastRecv, codec, disc, mtx, serr, killed>>

\* lines 411-413 and 426-431: close the output; delete it when incomplete
H_RfClose(c) ==
    /\ ~killed
    /\ hpc[c] = "rf_close"
    /\ IF total[c] = fi[c].filesize
       THEN /\ ofs' = [ofs EXCEPT ![c] = 0]
            /\ idata' = Reclaim(disk, [ofs EXCEPT ![c] = 0], idata)
            /\ hpc' = [hpc EXCEPT ![c] = "rf_callback"]
            /\ UNCHANGED <<disk, total, lastPct>>
       ELSE /\ AbortOutput(c)
            /\ Returned(c)
    /\ UNCHANGED <<srvVars, apiVars, sockVars, fi, ackBase, cbVars, lastRecv, codec, disc, mtx, serr, killed>>

\* a receiveFile that calls file_received_callback twice
H_RfCallbackTwice(c) ==
    /\ ~killed
    /\ hpc[c] = "rf_callback"
    /\ LET e == [filename |-> fi[c].filename, size |-> total[c],
                 xfer |-> fi[c].xfer]
       IN  cbFile' = [cbFile EXCEPT ![c] = Append(Append(@, e), e)]
    /\ hpc' = [hpc EXCEPT ![c] = "send_complete"]
    /\ UNCHANGED <<srvVars, apiVars, sockVars, locVars, diskVars, cbProg,
                   lastRecv, codec, disc, mtx, serr, killed>>

\* lines 417-419
H_RfCallback(c) ==
    /\ ~killed
    /\ hpc[c] = "rf_callback"
    /\ cbFile' = [cbFile EXCEPT ![c] =
            Append(@, [filename |-> fi[c].filename, size |-> total[c],
                       xfer |-> fi[c].xfer])]
    /\ hpc' = [hpc EXCEPT ![c] = "send_complete"]
    /\ UNCHANGED <<srvVars, apiVars, sockVars, locVars, diskVars, cbProg,
                   lastRecv, codec, disc, mtx, serr, killed>>

\* lines 421-425
H_SendComplete(c) ==
    /\ ~killed
    /\ hpc[c] = "send_complete"
    /\ IF SigPipe(connFd[c])
       THEN Terminated /\ UNCHANGED <<total, lastPct, hpc>>
       ELSE Sends(c, "complete", fi[c].filename) /\ Returned(c)
    /\ UNCHANGED <<srvVars, apiVars, connFd, fdt, inbuf, peer, script, pread,
                   fi, ofs, ackBase, diskVars, cbVars, lastRecv, codec, disc, mtx>>

\* lines 302-303 and 327: removeClient(client_socket), then the thread ends
H_Remove(c) ==
    /\ ~killed
    /\ hpc[c] = "remove"
    /\ clients' = RemovedClients(connFd[c])
    /\ fdt' = RemovedFdt(connFd[c])
    /\ hpc' = [hpc EXCEPT ![c] = "closed"]
    /\ UNCHANGED <<is_running, server_fd, bound, apc, acc, apiVars, connFd,
                   inbuf, peer, script, sent, pread, locVars, diskVars, cbVars,
                   lastRecv, codec, disc, mtx, serr, killed>>

Handler(c) ==
    \/ H_Recv(c)
    \/ H_FiUpdate(c)
    \/ H_SendReady(c)
    \/ H_Open(c)
    \/ H_RfRecv(c)
    \/ H_RfUpdate(c)
    \/ H_RfClose(c)
    \/ H_RfCallback(c)
    \/ H_SendComplete(c)
    \/ H_Remove(c)

(***************************************************************************)
(* The peers.                                                              *)
(***************************************************************************)
\* the peer's next token reaches the server's socket buffer
PeerSend(c) ==
    /\ peer[c] = "open"
    /\ script[c] # <<>>
    /\ Head(script[c]).kind \in {"text", "byte"}
    /\ inbuf' = [inbuf EXCEPT ![c] = Append(@, Head(script[c]))]
    /\ script' = [script EXCEPT ![c] = Tail(@)]
    /\ UNCHANGED <<srvVars, apiVars, connFd, fdt, peer, sent, pread, hpc,
                   locVars, diskVars, cbVars, lastRecv, codec, disc, mtx, serr, killed>>

\* sendFile lines 110-116: the client reads what the server has sent so far,
\* at least one status, before it sends the body
PeerAwait(c) ==
    /\ peer[c] = "open"
    /\ script[c] # <<>>
    /\ Head(script[c]).kind = "await"
    /\ pread[c] < Len(sent[c])
    /\ pread' = [pread EXCEPT ![c] = Len(sent[c])]
    /\ script' = [script EXCEPT ![c] = Tail(@)]
    /\ UNCHANGED <<srvVars, apiVars, connFd, fdt, inbuf, peer, sent, hpc,
                   locVars, diskVars, cbVars, lastRecv, codec, disc, mtx, serr, killed>>

\* the peer closes the connection (FIN), or aborts it (RST) when its script
\* ends so
PeerClose(c) ==
    /\ peer[c] = "open"
    /\ \/ /\ script[c] = <<>>
          /\ peer' = [peer EXCEPT ![c] = "closed"]
       \/ /\ script[c] = <<Rst(c)>>
          /\ peer' = [peer EXCEPT ![c] = "reset"]
    /\ script' = [script EXCEPT ![c] = <<>>]
    /\ UNCHANGED <<srvVars, apiVars, connFd, fdt, inbuf, sent, pread, hpc,
                   locVars, diskVars, cbVars, lastRecv, codec, disc, mtx, serr, killed>>

\* the peer's RST reaches the server's socket: the answer to bytes sent
\* after the peer's close (EPIPE), or the peer's abort (ECONNRESET)
RstArrives(c) ==
    /\ connFd[c] # 0
    /\ fdt[connFd[c]] = c
    /\ \/ serr[c] = "due" /\ serr' = [serr EXCEPT ![c] = "epipe"]
       \/ /\ serr[c] = "none"
          /\ peer[c] = "reset"
          /\ serr' = [serr EXCEPT ![c] = "reset"]
    /\ UNCHANGED <<srvVars, apiVars, sockVars, hpc, locVars, diskVars, cbVars,
                   lastRecv, codec, disc, mtx, killed>>

(***************************************************************************)
(* FileTransferServer::acceptConnections.                                  *)
(***************************************************************************)
\* lines 181-183: the loop test and accept(), which returns a connection or
\* times out (lines 190-195 then continue)
AcceptLoop ==
    /\ ~killed
    /\ apc = "loop"
    /\ IF ~is_running
       THEN /\ apc' = "done"
            /\ UNCHANGED <<acc, connFd, fdt, peer>>
       ELSE \/ \E c \in Conns :
                 /\ peer[c] = "idle"
                 /\ \A b \in Conns : b < c => peer[b] # "idle"
                 /\ peer' = [peer EXCEPT ![c] = "open"]
                 /\ connFd' = [connFd EXCEPT ![c] = LowestFree(fdt)]
                 /\ fdt' = [fdt EXCEPT ![LowestFree(fdt)] = c]
                 /\ acc' = c
                 /\ apc' = "check"
            \/ UNCHANGED <<apc, acc, connFd, fdt, peer>>
    /\ UNCHANGED <<is_running, server_fd, bound, clients, apiVars, inbuf,
                   script, sent, pread, hpc, locVars, diskVars, cbVars,
                   lastRecv, codec, disc, mtx, serr, killed>>

\* lines 185-209: give up the socket when stopping, else start the handler
AcceptCheck ==
    /\ ~killed
    /\ apc = "check"
    /\ IF ~is_running
       THEN /\ fdt' = [fdt EXCEPT ![connFd[acc]] = 0]
            /\ apc' = "done"
            /\ acc' = 0
            /\ UNCHANGED hpc
       ELSE /\ hpc' = [hpc EXCEPT ![acc] = "recv"]
            /\ apc' = "push"
            /\ UNCHANGED <<fdt, acc>>
    /\ UNCHANGED <<is_running, server_fd, bound, clients, apiVars, connFd,
                   inbuf, peer, script, sent, pread, locVars, diskVars, cbVars,
                   lastRecv, codec, disc, mtx, serr, killed>>

\* lines 211-223: store the ClientInfo
AcceptPush ==
    /\ ~killed
    /\ apc = "push"
    /\ clients' = Append(clients, ClientInfo(connFd[acc], acc))
    /\ apc' = "loop"
    /\ acc' = 0
    /\ UNCHANGED <<is_running, server_fd, bound, apiVars, sockVars, hpc,
                   locVars, diskVars, cbVars, lastRecv, codec, disc, mtx, serr, killed>>

(***************************************************************************)
(* FileTransferServer::start and stop.                                     *)
(***************************************************************************)
\* a failing start() that sets the running flag all the same
StartFailsRunning ==
    /\ lastCall' = "start_fail"
    /\ is_running' = TRUE
    /\ UNCHANGED apc

\* lines 54-57, 64-67, 69-72: return false
StartFails ==
    /\ lastCall' = "start_fail"
    /\ UNCHANGED <<is_running, apc>>

\* a start() that makes a new listening socket when the old one is gone
StartRecreates ==
    /\ ~killed
    /\ spc = "idle"
    /\ \E r \in {"ok", "bind_fails", "listen_fails"} :
          LET isBound == bound /\ server_fd >= 0
          IN  IF isBound \/ r = "bind_fails"
              THEN StartFails /\ bound' = isBound
              ELSE IF r = "listen_fails"
              THEN StartFails /\ bound' = TRUE
              ELSE /\ bound' = TRUE
                   /\ is_running' = TRUE
                   /\ apc' = "loop"
                   /\ lastCall' = "start_ok"
    /\ server_fd' = 0
    /\ UNCHANGED <<clients, acc, spc, sockVars, hpc,
                   locVars, diskVars, cbVars, lastRecv, codec, disc, mtx, serr, killed>>

\* lines 53-81; bind() fails on a socket that is bound already, so also on
\* a running server
Start ==
    /\ ~killed
    /\ spc = "idle"
    /\ IF server_fd < 0
       THEN StartFails /\ UNCHANGED bound
       ELSE \E r \in {"ok", "bind_fails", "listen_fails"} :
              IF bound \/ r = "bind_fails"
              THEN StartFails /\ UNCHANGED bound
              ELSE IF r = "listen_fails"
              THEN StartFails /\ bound' = TRUE
              ELSE /\ bound' = TRUE
                   /\ is_running' = TRUE
                   /\ apc' = "loop"
                   /\ lastCall' = "start_ok"
    /\ UNCHANGED <<server_fd, clients, acc, spc, sockVars, hpc,
                   locVars, diskVars, cbVars, lastRecv, codec, disc, mtx, serr, killed>>

\* a stop() without the test of line 87
StopEnterUnguarded ==
    /\ ~killed
    /\ spc = "idle"
    /\ is_running' = FALSE
    /\ server_fd' = -1
    /\ spc' = "close_clients"
    /\ UNCHANGED <<lastCall, bound, clients, apc, acc, sockVars, hpc,
                   locVars, diskVars, cbVars, lastRecv, codec, disc, mtx, serr, killed>>

\* lines 87-97
StopEnter ==
    /\ ~killed
    /\ spc = "idle"
    /\ IF ~is_running
       THEN /\ lastCall' = "stop_noop"
            /\ UNCHANGED <<is_running, server_fd, spc>>
       ELSE /\ is_running' = FALSE
            /\ server_fd' = -1
            /\ spc' = "close_clients"
            /\ UNCHANGED lastCall
    /\ UNCHANGED <<bound, clients, apc, acc, sockVars, hpc,
                   locVars, diskVars, cbVars, lastRecv, codec, disc, mtx, serr, killed>>

\* lines 99-111
StopCloseClients ==
    /\ ~killed
    /\ spc = "close_clients"
    /\ fdt' = [f \in Fds |->
                 IF \E i \in 1..Len(clients) : clients[i].socket_fd = f
                 THEN 0 ELSE fdt[f]]
    /\ clients' = [i \in 1..Len(clients) |->
                     [clients[i] EXCEPT !.socket_fd = -1, !.is_active = FALSE]]
    /\ spc' = "join"
    /\ UNCHANGED <<is_running, server_fd, bound, apc, acc, lastCall,
                   connFd, inbuf, peer, script, sent, pread, hpc, locVars, diskVars,
                   cbVars, lastRecv, codec, disc, mtx, serr, killed>>

\* lines 113-131: join() returns once acceptConnections has returned
StopJoin ==
    /\ ~killed
    /\ spc = "join"
    /\ apc = "done"
    /\ apc' = "none"
    /\ spc' = "cleanup"
    /\ UNCHANGED <<is_running, server_fd, bound, clients, acc, lastCall,
                   sockVars, hpc, locVars, diskVars, cbVars, lastRecv, codec, disc, mtx, serr, killed>>

\* lines 133-165: the wait ends when no entry is left or the three seconds
\* are over; then the threads are detached and the registry is cleared
StopCleanup ==
    /\ ~killed
    /\ spc = "cleanup"
    /\ clients' = <<>>
    /\ spc' = "idle"
    /\ lastCall' = "stopped"
    /\ UNCHANGED <<is_running, server_fd, bound, apc, acc, sockVars,
                   hpc, locVars, diskVars, cbVars, lastRecv, codec, disc, mtx, serr, killed>>

(***************************************************************************)
(* FileTransferServer::disconnectClient, called with a socket number that  *)
(* the registry lists: the DISCONNECT message, reason "server_shutdown",   *)
(* is sent on that descriptor, then removeClient runs.                     *)
(***************************************************************************)
disconnectClient(fd) ==
    /\ ~killed
    /\ FindClient(clients, fd) # 0
    /\ IF SigPipe(fd)
       THEN Terminated /\ UNCHANGED <<clients, fdt>>
       ELSE /\ sent' = Send(fd, "server_shutdown", "")
            /\ serr' = SendErr(fd)
            /\ clients' = RemovedClients(fd)
            /\ fdt' = RemovedFdt(fd)
            /\ UNCHANGED killed
    /\ UNCHANGED <<is_running, server_fd, bound, apc, acc, apiVars, connFd,
                   inbuf, peer, script, pread, hpc, locVars, diskVars, cbVars,
                   lastRecv, codec, disc, mtx>>

(***************************************************************************)
(* FileTransferServer::getConnectedClients: a copy of the registry, taken  *)
(* under the mutex.  The call changes nothing.                             *)
(***************************************************************************)
getConnectedClients == clients

\* the connections whose handler was started and has not finished
Live == {c \in Conns : hpc[c] \notin {"none", "closed"}}

GetConnectedClients ==
    /\ ~killed
    /\ is_running
    /\ UNCHANGED vars

(***************************************************************************)
(* What the peers send.                                                    *)
(***************************************************************************)
\* a FILE_INFO announcing size bytes, followed by the first k of them
Transfer(c, x, name, size, k) ==
    <<[Text("fi", c, x, name, size) EXCEPT !.pos = k], Await(c, x)>>
    \o Body(c, x, k)

ControlTexts ==
    {"client_disconnect", "disconnect", "error_null", "progress", "bogus",
     "garbage", "notype", "fi_noname", "fi_nosize"}

\* whole items: a transfer with its full body, or one control text
WholeItems(c, x) ==
    {Transfer(c, x, NameOf(c), n, n) : n \in 0..MaxSize}
    \cup {Transfer(c, x, nm, 1, 1) : nm \in Unopenable}
    \cup {<<Text(t, c, x, NameOf(c), 1)>> : t \in ControlTexts}

\* a FILE_INFO announcing size bytes from a peer that sends no byte of them
\* and does not wait for an answer
Announce(c, x, name, size) == <<Text("fi", c, x, name, size)>>

\* a transfer the peer abandons before the last byte
ShortItems(c, x) ==
    ({Transfer(c, x, NameOf(c), n, k) : n \in 1..MaxSize, k \in 0..(MaxSize - 1)}
        \ WholeItems(c, x))
    \cup {Announce(c, x, NameOf(c), n) : n \in 1..MaxSize}

\* what a client may send after a first whole item
SecondItems(c) ==
    {Transfer(c, 2, NameOf(c), 1, 1), <<Text("client_disconnect", c, 2, "", 0)>>}
    \cup ShortItems(c, 2)

\* one client session: up to two items, then a close; or one item and a reset
SessionItems(c) == {<<>>} \cup WholeItems(c, 1) \cup ShortItems(c, 1)

SessionScripts(c) ==
    SessionItems(c)
    \cup {a \o b : a \in WholeItems(c, 1), b \in SecondItems(c)}
    \cup {s \o <<Rst(c)>> : s \in SessionItems(c)}

\* concurrent clients: each sends one whole file under its own name
ClientScripts(c) == {Transfer(c, 1, NameOf(c), n, n) : n \in 1..MaxSize}

(***************************************************************************)
(* The codec on its own: a message is serialized, the text deserialized.   *)
(***************************************************************************)
ChunkTexts == {"", "QUJD"}

\* the payloads the programs of this repository put in a message
Payloads ==
    {JNullData}
    \cup {FileInfoMessage(nm, n).data : nm \in FileNames, n \in 0..MaxSize}
    \cup {ClientDisconnectMessage.data}
    \cup {Payload([NoFields EXCEPT !.percent = JNum(n)]) : n \in 0..MaxSize}
    \cup {Payload([NoFields EXCEPT !.service = JStr("file-transfer")])}

Messages ==
    {[type |-> t, data |-> d] : t \in MessageTypes \ {"FILE_CHUNK"}, d \in Payloads}
    \cup {[type |-> "FILE_CHUNK",
           data |-> Payload([NoFields EXCEPT !.chunk_data = JStr(cd),
                                             !.chunk_size = JNum(cs),
                                             !.chunk_index = JNum(ci)])] :
            cd \in ChunkTexts, cs \in 0..MaxSize, ci \in 0..MaxSize}

NoCodec == [pc |-> "none", m |-> [type |-> "", data |-> JNullData],
            w |-> NotJson, r |-> Thrown("none")]

Serialize ==
    /\ codec.pc = "message"
    /\ codec' = [codec EXCEPT !.pc = "text", !.w = serialize(codec.m)]
    /\ UNCHANGED <<srvVars, apiVars, sockVars, hpc, locVars, diskVars, cbVars,
                   lastRecv, disc, mtx, serr, killed>>

Deserialize ==
    /\ codec.pc = "text"
    /\ \E u \in IF TypeUnassigned(codec.w) THEN Indeterminate ELSE {"OTHER"} :
          codec' = [codec EXCEPT !.pc = "decoded", !.r = deserialize(codec.w, u)]
    /\ UNCHANGED <<srvVars, apiVars, sockVars, hpc, locVars, diskVars, cbVars,
                   lastRecv, disc, mtx, serr, killed>>

(***************************************************************************)
(* NetworkDiscovery: the listener thread of startListening and the calls   *)
(* that main.cpp makes on the object.  A datagram is the JSON document it  *)
(* holds (doc: "text" is no JSON, "array" stands for every document that   *)
(* is neither an object nor null), the members of an object, and the       *)
(* address it came from.                                                   *)
(***************************************************************************)
Senders == {"10.0.0.2", "10.0.0.3"}

Datagram(doc, type, service, port, name, ip) ==
    [doc |-> doc, type |-> type, service |-> service, port |-> port,
     name |-> name, ip |-> ip]

Datagrams ==
    {Datagram(k, Absent, Absent, Absent, Absent, ip) :
        k \in {"text", "array", "null"}, ip \in Senders}
    \cup
    {Datagram("object", t, sv, po, nm, ip) :
        t \in {JStr("DISCOVERY_RESPONSE"), JStr("DISCOVERY")},
        sv \in {Absent, JStr("FILE_TRANSFER"), JStr("PRINTER")},
        po \in {Absent, JNum(8080), JStr("8080")},
        nm \in {Absent, JNum(1)},
        ip \in Senders}

NoDatagram == Datagram("none", Absent, Absent, Absent, Absent, "")

NoDevice == [ip_address |-> "", port |-> 0, device_name |-> "", response_time |-> 0]

\* last and tick: the datagram handled last, tick changing with each one;
\* found and called: the device the callback was called with last, called
\* changing with each call
NoDisc == [is_listening |-> FALSE, callback |-> FALSE, discovered_devices |-> <<>>,
           last |-> NoDatagram, tick |-> FALSE,
           found |-> NoDevice, called |-> FALSE]

\* the test of the listener as it would be without the service name
MatchesType(d) ==
    /\ d.doc \in {"object", "null"}
    /\ Get(d.type) = JStr("DISCOVERY_RESPONSE")

\* lines 163-164; operator[] turns a null document into an object and
\* yields null for a member that is not there
Matches(d) ==
    /\ d.doc \in {"object", "null"}
    /\ Get(d.type) = JStr("DISCOVERY_RESPONSE")
    /\ Get(d.service) = JStr("FILE_TRANSFER")

\* json::parse (160) and operator[] (163) throw on these documents, value()
\* (174-175) throws on a member of another type than its default
Throws(d) ==
    \/ d.doc \in {"text", "array"}
    \/ /\ Matches(d)
       /\ \/ d.doc = "null"
          \/ d.port.k \notin {"absent", "num"}
          \/ d.name.k \notin {"absent", "str"}

\* lines 166-178
Device(d) ==
    [ip_address |-> d.ip,
     port |-> IF d.port.k = "absent" THEN 5000 ELSE d.port.n,
     device_name |-> IF d.name.k = "absent" THEN "Unknown Device" ELSE d.name.s,
     response_time |-> 0]

\* lines 181-187
Known(devs, ip) == \E i \in 1..Len(devs) : devs[i].ip_address = ip

\* the server and the codec
serverVars == <<srvVars, apiVars, sockVars, hpc, locVars, diskVars, cbVars,
                lastRecv, codec, serr, killed>>

\* everything but the discovery object
otherVars == <<serverVars, mtx>>

\* lines 146-149
startListening ==
    /\ disc' = [disc EXCEPT !.is_listening = TRUE]
    /\ UNCHANGED otherVars

\* lines 193-197
stopListening ==
    /\ disc' = [disc EXCEPT !.is_listening = FALSE]
    /\ UNCHANGED otherVars

\* networkDiscovery.hpp, lines 70-72
clearDiscoveredDevices ==
    /\ disc' = [disc EXCEPT !.discovered_devices = <<>>]
    /\ UNCHANGED otherVars

\* one turn of the listener's loop with a datagram received (lines 154-190)
ListenerReceive(d) ==
    /\ disc.is_listening
    /\ LET seen == [disc EXCEPT !.last = d, !.tick = ~@]
       IN  IF Throws(d) \/ ~Matches(d) \/ Known(disc.discovered_devices, d.ip)
           THEN disc' = seen
           ELSE disc' = [seen EXCEPT
                   !.discovered_devices = Append(@, Device(d)),
                   !.found = IF disc.callback THEN Device(d) ELSE @,
                   !.called = IF disc.callback THEN ~@ ELSE @]
    /\ UNCHANGED otherVars

(***************************************************************************)
(* clients_mutex.  The threads of a server and where each of them is with  *)
(* respect to the mutex: at a lock_guard it has yet to pass ("..._lock"),  *)
(* inside the block for which the guard stands ("..._held"), or at code    *)
(* that runs without it.  The handlers are h1, h2, ...; "acc" is the       *)
(* accept thread, "stop" the caller of stop(), "api" a caller of           *)
(* getConnectedClients.                                                    *)
(***************************************************************************)
HandlerName(c) == <<"h1", "h2", "h3", "h4">>[c]
MtxHandlers == {HandlerName(c) : c \in Conns}
MtxThreads == MtxHandlers \cup {"acc", "stop", "api"}

\* the lock_guards: handleClient 280, receiveFile 390, getConnectedClients
\* called from the progress and the file-received callback (474),
\* removeClient 438, acceptConnections 221, stop 100, 137 and 154,
\* getConnectedClients 474
MtxWanting ==
    {"fi_lock", "upd_lock", "pcb_lock", "fcb_lock", "rm_lock", "push_lock",
     "close_lock", "poll_lock", "clear_lock", "get_lock"}

MtxHeld(p) ==
    CASE p = "fi_lock" -> "fi_held"
      [] p = "upd_lock" -> "upd_held"
      [] p = "pcb_lock" -> "pcb_held"
      [] p = "fcb_lock" -> "fcb_held"
      [] p = "rm_lock" -> "rm_held"
      [] p = "push_lock" -> "push_held"
      [] p = "close_lock" -> "close_held"
      [] p = "poll_lock" -> "poll_held"
      [] p = "clear_lock" -> "clear_held"
      [] p = "get_lock" -> "get_held"

MtxHolding == {MtxHeld(p) : p \in MtxWanting}

\* where a thread goes on when the block of its lock_guard ends
MtxAfter(p) ==
    CASE p = "fi_held" -> {"rf_recv"}
      [] p = "upd_held" -> {"progress_cb", "rf_recv"}
      [] p = "pcb_held" -> {"rf_recv"}
      [] p = "fcb_held" -> {"recv"}
      [] p = "rm_held" -> {"done"}
      [] p = "push_held" -> {"accept"}
      [] p = "close_held" -> {"join"}
      [] p = "poll_held" -> {"poll_lock", "clear_lock"}
      [] p = "clear_held" -> {"stopped"}
      [] p = "get_held" -> {"idle"}

NoMtx ==
    [holder |-> "none", running |-> TRUE,
     at |-> [t \in MtxThreads |->
               IF t = "acc" THEN "accept"
               ELSE IF t \in {"stop", "api"} THEN "idle" ELSE "none"]]

\* a block that ends without giving the mutex back
M_KeepLocked(t, p) == [mtx EXCEPT !.at[t] = p]

\* the lock_guard goes out of scope
M_Unlock(t, p) == [mtx EXCEPT !.holder = "none", !.at[t] = p]

\* std::lock_guard's constructor: std::mutex::lock returns
M_Acquire(t) ==
    /\ mtx.at[t] \in MtxWanting
    /\ mtx.holder = "none"
    /\ mtx' = [mtx EXCEPT !.holder = t, !.at[t] = MtxHeld(mtx.at[t])]
    /\ UNCHANGED <<serverVars, disc>>

\* the block under the lock_guard runs to its end
M_Release(t) ==
    /\ mtx.holder = t
    /\ mtx.at[t] \in MtxHolding
    /\ \E p \in MtxAfter(mtx.at[t]) : mtx' = M_Unlock(t, p)
    /\ UNCHANGED <<serverVars, disc>>

\* handleClient and receiveFile between their lock_guards: the read of the
\* message loop (243) leads to the FileInfo update or to removeClient, a
\* read of receiveFile (367) to the progress update, to the end of the
\* transfer with its callback (417-419) or back to the message loop; a
\* callback returns or calls getConnectedClients
M_Handler(h) ==
    /\ \E p \in CASE mtx.at[h] = "recv" ->
                     IF mtx.running THEN {"fi_lock", "rm_lock"} ELSE {"rm_lock"}
                 [] mtx.at[h] = "rf_recv" ->
                     IF mtx.running THEN {"upd_lock", "file_cb", "recv"}
                     ELSE {"file_cb", "recv"}
                 [] mtx.at[h] = "progress_cb" -> {"rf_recv", "pcb_lock"}
                 [] mtx.at[h] = "file_cb" -> {"recv", "fcb_lock"}
                 [] OTHER -> {} :
          mtx' = [mtx EXCEPT !.at[h] = p]
    /\ UNCHANGED <<serverVars, disc>>

\* acceptConnections: the loop ends when is_running is false (181, 185);
\* an accepted connection gets its handler thread (208) and then its entry
M_Accept ==
    /\ mtx.at["acc"] = "accept"
    /\ IF ~mtx.running
       THEN mtx' = [mtx EXCEPT !.at["acc"] = "done"]
       ELSE \E h \in MtxHandlers :
               /\ mtx.at[h] = "none"
               /\ mtx' = [mtx EXCEPT !.at[h] = "recv", !.at["acc"] = "push_lock"]
    /\ UNCHANGED <<serverVars, disc>>

\* stop(), lines 87-100
M_Stop ==
    /\ mtx.at["stop"] = "idle"
    /\ mtx.running
    /\ mtx' = [mtx EXCEPT !.running = FALSE, !.at["stop"] = "close_lock"]
    /\ UNCHANGED <<serverVars, disc>>

\* stop(), line 119: join returns when the accept thread has ended
M_Join ==
    /\ mtx.at["stop"] = "join"
    /\ mtx.at["acc"] = "done"
    /\ mtx' = [mtx EXCEPT !.at["stop"] = "poll_lock"]
    /\ UNCHANGED <<serverVars, disc>>

\* a call of getConnectedClients from the thread that owns the server
M_Get ==
    /\ mtx.at["api"] = "idle"
    /\ mtx' = [mtx EXCEPT !.at["api"] = "get_lock"]
    /\ UNCHANGED <<serverVars, disc>>

(***************************************************************************)
(* Initial states and specifications.                                      *)
(***************************************************************************)
NoConn == [c \in Conns |-> 0]

\* no connection was accepted yet, no handler has run, the directory is empty
InitHandlers ==
    /\ clients = <<>>
    /\ acc = 0
    /\ spc = "idle"
    /\ connFd = NoConn
    /\ fdt = [f \in Fds |-> 0]
    /\ hpc = [c \in Conns |-> "none"]
    /\ fi = [c \in Conns |-> NoFile]
    /\ total = NoConn
    /\ lastPct = [c \in Conns |-> -1]
    /\ ofs = NoConn
    /\ ackBase = NoConn
    /\ disk = [nm \in FileNames |-> 0]
    /\ idata = [i \in Inodes |-> <<>>]
    /\ cbProg = [c \in Conns |-> <<>>]
    /\ cbFile = [c \in Conns |-> <<>>]
    /\ lastRecv = [c \in Conns |-> NoRecv]
    /\ inbuf = [c \in Conns |-> <<>>]
    /\ sent = [c \in Conns |-> <<>>]
    /\ pread = NoConn
    /\ serr = [c \in Conns |-> "none"]
    /\ killed = FALSE

\* the server as its constructor leaves it (lines 19-37), with the socket
\* or without it, and one client that is yet to connect
Init ==
    /\ is_running = FALSE
    /\ server_fd \in {0, -1}
    /\ bound = FALSE
    /\ apc = "none"
    /\ lastCall = "none"
    /\ InitHandlers
    /\ peer = [c \in Conns |-> IF c = 1 THEN "idle" ELSE "none"]
    /\ \E s \in SessionScripts(1) :
          script = [c \in Conns |-> IF c = 1 THEN s ELSE <<>>]
    /\ codec = NoCodec
    /\ disc = NoDisc
    /\ mtx = NoMtx

Next ==
    \/ Start
    \/ StopEnter
    \/ StopCloseClients
    \/ StopJoin
    \/ StopCleanup
    \/ AcceptLoop
    \/ AcceptCheck
    \/ AcceptPush
    \/ GetConnectedClients
    \/ \E c \in Conns : Handler(c)
    \/ \E c \in Conns : PeerSend(c)
    \/ \E c \in Conns : PeerAwait(c)
    \/ \E c \in Conns : PeerClose(c)
    \/ \E c \in Conns : RstArrives(c)

Spec == Init /\ [][Next]_vars

\* a server that start() has set running and is not stopped, and a client on
\* every connection, each sending one file under its own name
InitClients ==
    /\ is_running = TRUE
    /\ server_fd = 0
    /\ bound = TRUE
    /\ apc = "loop"
    /\ lastCall = "start_ok"
    /\ InitHandlers
    /\ peer = [c \in Conns |-> "idle"]
    /\ script \in [Conns -> UNION {ClientScripts(c) : c \in Conns}]
    /\ \A c \in Conns : script[c] \in ClientScripts(c)
    /\ codec = NoCodec
    /\ disc = NoDisc
    /\ mtx = NoMtx

NextClients ==
    \/ AcceptLoop
    \/ AcceptCheck
    \/ AcceptPush
    \/ GetConnectedClients
    \/ \E c \in Conns : Handler(c)
    \/ \E c \in Conns : PeerSend(c)
    \/ \E c \in Conns : PeerAwait(c)
    \/ \E c \in Conns : PeerClose(c)
    \/ \E c \in Conns : RstArrives(c)

\* every thread that can take a step is scheduled in the end, and every
\* client goes on with its sendFile
SpecClients ==
    /\ InitClients
    /\ [][NextClients]_vars
    /\ WF_vars(AcceptLoop)
    /\ WF_vars(AcceptCheck)
    /\ WF_vars(AcceptPush)
    /\ \A c \in Conns :
          /\ WF_vars(Handler(c))
          /\ WF_vars(PeerSend(c))
          /\ WF_vars(PeerAwait(c))
          /\ WF_vars(PeerClose(c))
          /\ WF_vars(RstArrives(c))

\* the codec alone: no server thread runs
\* what a client does in a server that is shut down: connect and stay
\* silent, or (the first one) send a file of one byte
ShutdownScripts(c) ==
    IF c = 1 THEN {<<>>, Transfer(c, 1, NameOf(c), 1, 1)} ELSE {<<>>}

\* a running server and a client on every connection
InitShutdown ==
    /\ is_running = TRUE
    /\ server_fd = 0
    /\ bound = TRUE
    /\ apc = "loop"
    /\ lastCall = "start_ok"
    /\ InitHandlers
    /\ peer = [c \in Conns |-> "idle"]
    /\ script \in [Conns -> UNION {ShutdownScripts(c) : c \in Conns}]
    /\ \A c \in Conns : script[c] \in ShutdownScripts(c)
    /\ codec = NoCodec
    /\ disc = NoDisc
    /\ mtx = NoMtx

NextShutdown ==
    \/ StopEnter
    \/ StopCloseClients
    \/ StopJoin
    \/ StopCleanup
    \/ AcceptLoop
    \/ AcceptCheck
    \/ AcceptPush
    \/ GetConnectedClients
    \/ \E c \in Conns : Handler(c)
    \/ \E c \in Conns : PeerSend(c)
    \/ \E c \in Conns : PeerAwait(c)
    \/ \E c \in Conns : PeerClose(c)
    \/ \E c \in Conns : RstArrives(c)

\* the caller of stop() and the accept thread go on; nothing is assumed of
\* the handlers and the peers
SpecShutdown ==
    /\ InitShutdown
    /\ [][NextShutdown]_vars
    /\ WF_vars(StopCloseClients)
    /\ WF_vars(StopJoin)
    /\ WF_vars(StopCleanup)
    /\ WF_vars(AcceptLoop)
    /\ WF_vars(AcceptCheck)
    /\ WF_vars(AcceptPush)

\* the same, with handler threads that are scheduled: a handler whose next
\* step can be taken (its read has returned, its loop condition is false)
\* takes it; the peers stay free to send nothing
SpecStopping ==
    /\ SpecShutdown
    /\ \A c \in Conns : WF_vars(Handler(c))

\* clients that announce the same filename: the first sends its whole file,
\* the others announce one byte and send none
SameNameScripts(c) ==
    IF c = 1 THEN {Transfer(c, 1, NameOf(1), n, n) : n \in 1..MaxSize}
    ELSE {Transfer(c, 1, NameOf(1), 1, 0)}

InitSameName ==
    /\ is_running = TRUE
    /\ server_fd = 0
    /\ bound = TRUE
    /\ apc = "loop"
    /\ lastCall = "start_ok"
    /\ InitHandlers
    /\ peer = [c \in Conns |-> "idle"]
    /\ script \in [Conns -> UNION {SameNameScripts(c) : c \in Conns}]
    /\ \A c \in Conns : script[c] \in SameNameScripts(c)
    /\ codec = NoCodec
    /\ disc = NoDisc
    /\ mtx = NoMtx

SpecSameName == InitSameName /\ [][NextClients]_vars

\* a running server whose operator disconnects sessions; the first client
\* sends one byte as a file or nothing, the others nothing, and each closes
\* sooner or later
DisconnectScripts(c) ==
    IF c = 1 THEN {<<>>, Transfer(c, 1, NameOf(c), 1, 1)} ELSE {<<>>}

InitDisconnect ==
    /\ is_running = TRUE
    /\ server_fd = 0
    /\ bound = TRUE
    /\ apc = "loop"
    /\ lastCall = "start_ok"
    /\ InitHandlers
    /\ peer = [c \in Conns |-> "idle"]
    /\ script \in [Conns -> UNION {DisconnectScripts(c) : c \in Conns}]
    /\ \A c \in Conns : script[c] \in DisconnectScripts(c)
    /\ codec = NoCodec
    /\ disc = NoDisc
    /\ mtx = NoMtx

NextDisconnect ==
    \/ AcceptLoop
    \/ AcceptCheck
    \/ AcceptPush
    \/ \E fd \in Fds : disconnectClient(fd)
    \/ \E c \in Conns : Handler(c)
    \/ \E c \in Conns : PeerSend(c)
    \/ \E c \in Conns : PeerAwait(c)
    \/ \E c \in Conns : PeerClose(c)
    \/ \E c \in Conns : RstArrives(c)

SpecDisconnect == InitDisconnect /\ [][NextDisconnect]_vars

\* a running server and one client that sends one whole file
InitProgress ==
    /\ is_running = TRUE
    /\ server_fd = 0
    /\ bound = TRUE
    /\ apc = "loop"
    /\ lastCall = "start_ok"
    /\ InitHandlers
    /\ peer = [c \in Conns |-> IF c = 1 THEN "idle" ELSE "none"]
    /\ \E n \in 1..MaxProgress :
          script = [c \in Conns |->
                      IF c = 1 THEN Transfer(1, 1, NameOf(1), n, n) ELSE <<>>]
    /\ codec = NoCodec
    /\ disc = NoDisc
    /\ mtx = NoMtx

NextProgress ==
    \/ AcceptLoop
    \/ AcceptCheck
    \/ AcceptPush
    \/ \E c \in Conns : Handler(c)
    \/ \E c \in Conns : PeerSend(c)
    \/ \E c \in Conns : PeerAwait(c)
    \/ \E c \in Conns : PeerClose(c)
    \/ \E c \in Conns : RstArrives(c)

SpecProgress == InitProgress /\ [][NextProgress]_vars

\* the same with threads that are scheduled and a client that goes on with
\* its sendFile
SpecTimeouts ==
    /\ SpecProgress
    /\ WF_vars(AcceptLoop)
    /\ WF_vars(AcceptCheck)
    /\ WF_vars(AcceptPush)
    /\ \A c \in Conns :
          /\ WF_vars(Handler(c))
          /\ WF_vars(PeerSend(c))
          /\ WF_vars(PeerAwait(c))

InitCodec ==
    /\ is_running = FALSE
    /\ server_fd = 0
    /\ bound = FALSE
    /\ apc = "none"
    /\ lastCall = "none"
    /\ InitHandlers
    /\ peer = [c \in Conns |-> "none"]
    /\ script = [c \in Conns |-> <<>>]
    /\ \E m \in Messages : codec = [NoCodec EXCEPT !.pc = "message", !.m = m]
    /\ disc = NoDisc
    /\ mtx = NoMtx

NextCodec ==
    \/ Serialize
    \/ Deserialize

SpecCodec == InitCodec /\ [][NextCodec]_vars

\* the discovery object alone, with or without a device-found callback
InitDiscovery ==
    /\ is_running = FALSE
    /\ server_fd = 0
    /\ bound = FALSE
    /\ apc = "none"
    /\ lastCall = "none"
    /\ InitHandlers
    /\ peer = [c \in Conns |-> "none"]
    /\ script = [c \in Conns |-> <<>>]
    /\ codec = NoCodec
    /\ \E cb \in BOOLEAN : disc = [NoDisc EXCEPT !.callback = cb]
    /\ mtx = NoMtx

NextDiscovery ==
    \/ startListening
    \/ stopListening
    \/ clearDiscoveredDevices
    \/ \E d \in Datagrams : ListenerReceive(d)

SpecDiscovery == InitDiscovery /\ [][NextDiscovery]_vars

\* the threads of a started server and clients_mutex
InitMutex ==
    /\ is_running = TRUE
    /\ server_fd = 0
    /\ bound = TRUE
    /\ apc = "none"
    /\ lastCall = "start_ok"
    /\ InitHandlers
    /\ peer = [c \in Conns |-> "none"]
    /\ script = [c \in Conns |-> <<>>]
    /\ codec = NoCodec
    /\ disc = NoDisc
    /\ mtx = NoMtx

NextMutex ==
    \/ \E t \in MtxThreads : M_Acquire(t)
    \/ \E t \in MtxThreads : M_Release(t)
    \/ \E h \in MtxHandlers : M_Handler(h)
    \/ M_Accept
    \/ M_Stop
    \/ M_Join
    \/ M_Get

\* a thread inside a block under the mutex runs to the end of the block
SpecMutex ==
    /\ InitMutex
    /\ [][NextMutex]_vars
    /\ \A t \in MtxThreads : WF_vars(M_Release(t))

(***************************************************************************)
(* Properties.                                                             *)
(***************************************************************************)
Status(st, nm) == [status |-> st, filename |-> nm]

\* the socket accept() returned for c is still open
SockOpen(c) == hpc[c] # "none" /\ fdt[connFd[c]] = c

\* and no send() on it has returned an error
Intact(c) == SockOpen(c) /\ serr[c] # "dead"

\* what the server has sent to c since it decoded c's latest FILE_INFO
Since(c) == SubSeq(sent[c], ackBase[c] + 1, Len(sent[c]))

\* the latest FILE_INFO of c names a file that opens and is followed by
\* exactly filesize body bytes, or by fewer
WholeBody(c) == fi[c].filename \in FileNames /\ fi[c].sends = fi[c].filesize
ShortBody(c) == fi[c].filename \in FileNames /\ fi[c].sends < fi[c].filesize

\* the call of file_received_callback for the latest FILE_INFO of c was made
Reported(c) ==
    /\ cbFile[c] # <<>>
    /\ cbFile[c][Len(cbFile[c])] =
          [filename |-> fi[c].filename, size |-> fi[c].filesize,
           xfer |-> fi[c].xfer]

\* receiveFile has returned for the latest FILE_INFO of c and the message
\* loop has read nothing since
BackInLoop(c) == hpc[c] = "recv" /\ lastRecv[c].t = "fi"

(* C1: when a FILE_INFO is followed by a body of exactly filesize bytes,   *)
(* then however the bytes are split over the reads and whatever timeouts   *)
(* fall in between, a running server never ends the transfer early, the    *)
(* file it has stored when the receive loop ends holds exactly the body    *)
(* bytes in order, and the transfer is reported (file-received callback).  *)
C1_StoredFileEqualsBody ==
    \A c \in Conns :
       WholeBody(c) =>
          /\ (hpc[c] = "rf_recv" /\ is_running /\ total[c] < fi[c].filesize)
                => RecvOutcome(connFd[c]) \in {"data", "timeout"}
          /\ (hpc[c] = "rf_close" /\ is_running) => total[c] = fi[c].filesize
          /\ hpc[c] \in {"rf_callback", "send_complete"} =>
                /\ FileExists(fi[c].filename)
                /\ FileContent(fi[c].filename)
                      = Body(c, fi[c].xfer, fi[c].filesize)
          /\ hpc[c] = "send_complete" => Reported(c)

\* a body of more than one byte that arrived in more than one read is stored
C1_Witness ==
    /\ hpc[1] = "send_complete"
    /\ WholeBody(1)
    /\ fi[1].xfer = 1
    /\ fi[1].filesize > 1
    /\ Len(cbProg[1]) > 1
    /\ FileContent(fi[1].filename) = Body(1, 1, fi[1].filesize)

(* C2: while the socket is open and has taken every send, the statuses    *)
(* sent for a transfer are "ready", then "receiving", then "complete":     *)
(* nothing is sent before the FILE_INFO is handled, "ready" goes out       *)
(* before a body byte is read, "complete" only after the last byte is      *)
(* written, and a transfer that succeeded has sent exactly the three,      *)
(* "complete" naming the stored (announced) file.                          *)
C2_StatusSequence ==
    \A c \in Conns :
       Intact(c) =>
          /\ hpc[c] \in {"fi_update", "send_ready"} =>
                Since(c) = <<>> /\ total[c] = 0
          /\ hpc[c] = "rf_open" =>
                Since(c) = <<Status("ready", "")>> /\ total[c] = 0
          /\ hpc[c] \in {"rf_recv", "rf_update", "rf_close", "rf_callback",
                         "send_complete"} =>
                Since(c) = <<Status("ready", ""), Status("receiving", "")>>
          /\ hpc[c] \in {"rf_callback", "send_complete"} =>
                /\ total[c] = fi[c].filesize
                /\ Len(FileContent(fi[c].filename)) = fi[c].filesize
          /\ (BackInLoop(c) /\ Reported(c)) =>
                /\ Since(c) = <<Status("ready", ""), Status("receiving", ""),
                                Status("complete", fi[c].filename)>>
                /\ FileExists(fi[c].filename)

\* a transfer has succeeded and its three statuses are with the peer
C2_Witness ==
    /\ Intact(1)
    /\ BackInLoop(1)
    /\ Reported(1)
    /\ fi[1].filesize > 0
    /\ Len(Since(1)) = 3

(* C3: when a client announces n bytes and sends fewer, the process is not *)
(* terminated, the transfer never reaches the file-received callback, and  *)
(* once receiveFile has returned no output file of that name is left and   *)
(* none is held open; the handler is back in the message loop, which it    *)
(* leaves only by a later read.                                            *)
C3_ShortBodyLeavesNoFile ==
    \A c \in Conns :
       ShortBody(c) =>
          /\ ~killed
          /\ hpc[c] \notin {"rf_callback", "send_complete"}
          /\ ~Reported(c)
          /\ hpc[c] \in {"recv", "remove", "closed"} =>
                ~FileExists(fi[c].filename) /\ ofs[c] = 0
          /\ hpc[c] \in {"remove", "closed"} => lastRecv[c].t # "fi"

(* C4: while the server is running and the accept loop is between two      *)
(* connections, getConnectedClients returns as many entries as there are   *)
(* accepted connections whose handler has not finished.                    *)
C4_SnapshotCountsLive ==
    (is_running /\ apc = "loop") =>
        Len(getConnectedClients) = Cardinality(Live)

\* files and registry entries hold what their own session brought
C5_OwnBytesOnly ==
    /\ \A c \in Conns :
          \A i \in 1..Len(FileContent(NameOf(c))) :
             FileContent(NameOf(c))[i].conn = c
    /\ \A i \in 1..Len(clients) :
          /\ clients[i].current_filename \in {"", NameOf(clients[i].peer)}
          /\ clients[i].bytes_received <= fi[clients[i].peer].filesize

\* a step of c's handler that updates the registry
C5_UpdateOwnEntry ==
    \A c \in Conns :
       (hpc[c] \in {"fi_update", "rf_update"} /\ hpc'[c] # hpc[c]) =>
          /\ Len(clients') = Len(clients)
          /\ \A i \in 1..Len(clients) :
                clients[i].peer # c => clients'[i] = clients[i]

\* c's file is stored, reported and acknowledged
C5_Complete(c) ==
    /\ WholeBody(c)
    /\ Reported(c)
    /\ FileContent(NameOf(c)) = Body(c, 1, fi[c].filesize)
    /\ \E i \in 1..Len(sent[c]) : sent[c][i] = Status("complete", NameOf(c))

(* C5: with a client on every connection, each sending a file under its    *)
(* own name: a stored file holds only bytes of its own connection, a       *)
(* registry entry carries only the name and a byte count of its own        *)
(* session, a handler's progress update leaves every other entry alone,    *)
(* and in the end every transfer is complete.                              *)
C5_ConcurrentTransfers ==
    /\ []C5_OwnBytesOnly
    /\ [][C5_UpdateOwnEntry]_vars
    /\ <>(\A c \in Conns : C5_Complete(c))

(* C6: once stop() has returned, the registry is empty and every socket    *)
(* that accept() returned is closed.                                       *)
C6_StopClosesEverySocket ==
    (lastCall = "stopped" /\ spc = "idle") =>
        /\ clients = <<>>
        /\ \A f \in Fds : fdt[f] = 0

(* C7: a text whose type names no known kind is decoded to no known kind,  *)
(* and the session that read it stays in the message loop.                 *)
C7_UnknownTypeStays ==
    \A c \in Conns :
       lastRecv[c].t = "bogus" =>
          /\ lastRecv[c].type \notin MessageTypes
          /\ hpc[c] = "recv"

\* c's handler reads, in the message loop, a text that does not decode
C8_Read(c) ==
    /\ hpc[c] = "recv"
    /\ Len(inbuf'[c]) < Len(inbuf[c])
    /\ lastRecv'[c].t \in Undecodable \cup {"junk"}

(* C8: a read of the message loop that yields a text that does not decode  *)
(* (not JSON, no type, a FILE_INFO short of filename or filesize) ends in  *)
(* the loop's catch: the handler stays in the loop, and the registry, the  *)
(* sockets, what was sent to the peers, the files and the callbacks are    *)
(* as they were.                                                           *)
C8_UndecodableIsCaught ==
    [][\A c \in Conns :
          C8_Read(c) =>
             /\ lastRecv'[c].exc = "caught"
             /\ hpc'[c] = "recv"
             /\ UNCHANGED <<clients, fdt, sent, disk, idata, ofs, fi, cbProg,
                            cbFile, is_running>>]_vars

\* a FILE_INFO without a filename was read and the session reads on
C8_Witness ==
    /\ lastRecv[1] = [t |-> "fi_noname", type |-> "FILE_INFO", exc |-> "caught"]
    /\ hpc[1] = "recv"
    /\ SockOpen(1)
    /\ is_running
    /\ sent[1] = <<>>

(* C9: for every well-formed message of each of the seven kinds,           *)
(* deserialize(serialize(m)) has the kind of m and the payload of m; for a *)
(* FILE_CHUNK these are chunk_data, chunk_size and chunk_index.            *)
C9_RoundTrip ==
    codec.pc = "decoded" =>
        /\ codec.r.exc = "none"
        /\ codec.r.type = codec.m.type
        /\ codec.r.data = codec.m.data

\* a chunk with a text and a positive index went through both
C9_Witness ==
    /\ codec.pc = "decoded"
    /\ codec.m.type = "FILE_CHUNK"
    /\ codec.r.data.f.chunk_index.n > 0
    /\ codec.r.data.f.chunk_data.s # ""

(* C10: a stop() on a server that is not running leaves the running flag,  *)
(* the listening socket, the registry, the sockets and every thread as     *)
(* they were, whether the server never started, failed to start, or was    *)
(* stopped before.                                                         *)
C10_StopWhenNotRunning ==
    [][(StopEnter /\ ~is_running) =>
          UNCHANGED <<is_running, server_fd, bound, clients, apc, acc, spc,
                      sockVars, hpc, locVars, diskVars>>]_vars

\* a second stop() after a stop() that ran to its end
C10_Witness ==
    /\ lastCall = "stop_noop"
    /\ bound
    /\ server_fd = -1
    /\ spc = "idle"
    /\ apc = "none"

\* no start() has succeeded on this server: the flag was never set and the
\* listening socket was never closed by stop()
NeverStarted == ~is_running /\ server_fd >= 0

\* a start() call that returns false
C11_Fails == Start /\ lastCall' = "start_fail"

\* a start() call that returns true
C11_Succeeds == Start /\ lastCall' = "start_ok"

(* C11: a start() returns failure or success.  One that fails (no socket,  *)
(* bind or listen refused) leaves the running flag, the accept loop, the   *)
(* registry, the handlers and the sockets as they were, and as long as no  *)
(* start() has succeeded there is no accept loop, no handler and no        *)
(* registry entry.  One that succeeds found the server not running and     *)
(* without an accept loop, sets the running flag and starts the one loop.  *)
C11_StartOutcome ==
    /\ [](NeverStarted =>
            /\ apc = "none"
            /\ clients = <<>>
            /\ \A c \in Conns : hpc[c] = "none" /\ connFd[c] = 0)
    /\ [][Start => lastCall' \in {"start_fail", "start_ok"}]_vars
    /\ [][C11_Fails =>
            UNCHANGED <<is_running, apc, acc, clients, hpc, sockVars,
                        server_fd>>]_vars
    /\ [][C11_Succeeds =>
            /\ ~is_running /\ is_running'
            /\ apc = "none" /\ apc' = "loop"
            /\ bound'
            /\ UNCHANGED <<clients, hpc, sockVars, server_fd>>]_vars

\* listen() failed after bind() succeeded, and the server is not running
C11_Witness ==
    /\ lastCall = "start_fail"
    /\ bound
    /\ NeverStarted
    /\ apc = "none"

\* removeClient(fd) made twice in a row, on the registry and the sockets as
\* they are
C12_Once(fd) == removeClient(clients, fdt, fd)
C12_Twice(fd) == removeClient(C12_Once(fd).clients, C12_Once(fd).fdt, fd)

(* C12: a removeClient(fd) for a descriptor no entry carries leaves the    *)
(* registry and every socket as they were, a second removeClient(fd) right *)
(* after a first changes nothing more, and the removeClient a handler      *)
(* makes at its end for an identifier that is not registered changes       *)
(* neither the registry nor a socket.                                      *)
C12_RemoveAbsentIsNoOp ==
    /\ [](\A fd \in Fds :
            /\ FindClient(clients, fd) = 0 =>
                  C12_Once(fd) = [clients |-> clients, fdt |-> fdt]
            /\ C12_Twice(fd) = C12_Once(fd))
    /\ [][\A c \in Conns :
            (H_Remove(c) /\ FindClient(clients, connFd[c]) = 0) =>
                UNCHANGED <<clients, fdt>>]_vars

\* a handler ended before its connection was registered: its removeClient
\* found no entry and the socket is as it was
C12_Witness ==
    /\ hpc[1] = "closed"
    /\ apc = "push"
    /\ acc = 1
    /\ clients = <<>>
    /\ fdt[connFd[1]] = 1

(* C13: no two entries of the registry carry the same socket_fd, in any    *)
(* state, also while stop() closes the sessions and when a descriptor      *)
(* number is given out again.                                              *)
C13_UniqueSocketFd ==
    \A i, j \in 1..Len(clients) :
       i # j => clients[i].socket_fd # clients[j].socket_fd

\* the entries that carry a descriptor number carry different ones
C13_UniqueOpenFd ==
    \A i, j \in 1..Len(clients) :
       (i # j /\ clients[i].socket_fd >= 0) =>
          clients[i].socket_fd # clients[j].socket_fd

\* stop() has returned
Stopped == spc = "idle" /\ lastCall = "stopped"

(* C14: a stop() that found the server running returns in the end, with    *)
(* the registry cleared, whether or not the handlers go on.                *)
C14_StopReturns ==
    /\ [](Stopped => clients = <<>>)
    /\ (spc = "close_clients") ~> Stopped

\* the same, but for a process that SIGPIPE has terminated
C14_StopReturnsUnlessTerminated ==
    /\ [](Stopped => clients = <<>>)
    /\ (spc = "close_clients") ~> (Stopped \/ killed)

\* the calls of file_received_callback made for the latest FILE_INFO of c
C15_Calls(c) == {i \in 1..Len(cbFile[c]) : cbFile[c][i].xfer = fi[c].xfer}

(* C15: file_received_callback is called once for a transfer whose count   *)
(* has reached the declared size, with the stored name and the declared    *)
(* size, after the output is closed and before "complete" is sent; a       *)
(* transfer that ends with fewer bytes returns without the call, and no    *)
(* transfer is reported twice.                                             *)
C15_CallbackOnce ==
    /\ [](\A c \in Conns :
            /\ Cardinality(C15_Calls(c)) <= 1
            /\ hpc[c] \in {"fi_update", "send_ready", "rf_open", "rf_recv",
                           "rf_update", "rf_close", "rf_callback"} =>
                  C15_Calls(c) = {}
            /\ hpc[c] = "send_complete" =>
                  /\ Reported(c)
                  /\ Cardinality(C15_Calls(c)) = 1
                  /\ ofs[c] = 0
                  /\ total[c] = fi[c].filesize
                  /\ Intact(c) =>
                        \A i \in 1..Len(Since(c)) :
                           Since(c)[i].status # "complete"
            /\ ShortBody(c) => C15_Calls(c) = {})
    /\ [][\A c \in Conns :
            cbFile'[c] # cbFile[c] =>
               /\ hpc[c] = "rf_callback"
               /\ total[c] = fi[c].filesize
               /\ ofs[c] = 0
               /\ Len(FileContent(fi[c].filename)) = fi[c].filesize
               /\ cbFile'[c] = Append(cbFile[c],
                                      [filename |-> fi[c].filename,
                                       size |-> fi[c].filesize,
                                       xfer |-> fi[c].xfer])]_vars
    /\ [][\A c \in Conns :
            (hpc[c] = "rf_close" /\ hpc'[c] # "rf_close") =>
               /\ ofs'[c] = 0
               /\ IF total[c] = fi[c].filesize
                  THEN hpc'[c] = "rf_callback"
                  ELSE hpc'[c] = "recv" /\ cbFile' = cbFile]_vars

\* the second transfer of a session is closed, reported and not yet
\* acknowledged
C15_Witness ==
    /\ hpc[1] = "send_complete"
    /\ fi[1].xfer = 2
    /\ Len(cbFile[1]) = 2
    /\ fi[1].filesize > 0
    /\ ofs[1] = 0

\* the highest multiple of ten that c's count has reached, in percent of
\* the declared size
C16_Boundary(c) == 10 * (percentage(total[c], fi[c].filesize) \div 10)

(* C16: whenever the receive loop has taken bytes and published the count, *)
(* the progress callback has been called for the highest multiple of 10%   *)
(* of the declared size that the count has reached: the last percentage    *)
(* reported is not below it.                                               *)
C16_BoundaryReported ==
    \A c \in Conns :
       (hpc[c] \in {"rf_recv", "rf_close"} /\ fi[c].filesize > 0
          /\ C16_Boundary(c) >= 10) =>
             /\ cbProg[c] # <<>>
             /\ cbProg[c][Len(cbProg[c])] >= C16_Boundary(c)

\* the output file of c's latest FILE_INFO does not open
C17_NoOutput(c) == fi[c].filename \notin FileNames

C18_Failed(c) ==
    /\ BackInLoop(c)
    /\ fi[c].filename \in FileNames
    /\ C15_Calls(c) = {}

\* a send() on c's socket would be taken
C18_Writable(c) == Intact(c) /\ serr[c] \in {"none", "due"}

(* C18: when a transfer has failed after the output was opened and the     *)
(* socket still takes a send, the peer has been sent an error status for   *)
(* that transfer.                                                          *)
C18_FailureIsReported ==
    \A c \in Conns :
       (C18_Failed(c) /\ C18_Writable(c)) =>
          \E i \in 1..Len(Since(c)) : Since(c)[i].status = "error"

\* the same for a stop(): the running flag was cleared in the middle of a
\* transfer from a peer that is connected and waits
C18_StopIsReported ==
    \A c \in Conns :
       (C18_Failed(c) /\ C18_Writable(c) /\ peer[c] = "open") =>
          \E i \in 1..Len(Since(c)) : Since(c)[i].status = "error"

\* a recv() of c's handler fails with an error that is not a timeout
C19_ReadError(c) == connFd[c] # 0 /\ RecvOutcome(connFd[c]) = "error"

C20_Disconnect(c) ==
    lastRecv[c] = [t |-> "disconnect", type |-> "DISCONNECT", exc |-> "none"]

(* C20: a handler that has decoded a DISCONNECT message reads no more and  *)
(* sends nothing: it goes on to removeClient and ends, and once it has     *)
(* ended its socket is closed and the registry holds no entry of its       *)
(* session.                                                                *)
C20_DisconnectCloses ==
    /\ [](\A c \in Conns :
            C20_Disconnect(c) =>
               /\ hpc[c] \in {"remove", "closed"}
               /\ hpc[c] = "closed" =>
                     /\ fdt[connFd[c]] # c
                     /\ \A i \in 1..Len(clients) : clients[i].peer # c)
    /\ [][\A c \in Conns :
            C20_Disconnect(c) =>
               /\ sent'[c] = sent[c]
               /\ Len(inbuf'[c]) >= Len(inbuf[c])
               /\ lastRecv'[c] = lastRecv[c]]_vars

\* where c's handler is when it is not inside receiveFile with an output
C21_Outside == {"none", "recv", "fi_update", "send_ready", "remove", "closed"}

(* C21: a handler opens an output only when it holds none, holds none      *)
(* outside receiveFile, and whenever receiveFile returns after it opened   *)
(* the output (all bytes taken, recv of 0, recv error, running flag        *)
(* cleared) the output is closed; the file is gone when fewer bytes than   *)
(* declared were written and is there in full otherwise.                   *)
C21_OutputClosedOnExit ==
    /\ [](\A c \in Conns : hpc[c] \in C21_Outside => ofs[c] = 0)
    /\ [][\A c \in Conns :
            (ofs'[c] # ofs[c] /\ ofs'[c] # 0) =>
                ofs[c] = 0 /\ hpc[c] = "rf_open"]_vars
    /\ [][\A c \in Conns :
            (hpc[c] \in {"rf_recv", "rf_close", "send_complete"}
                /\ hpc'[c] = "recv") =>
               /\ ofs'[c] = 0
               /\ IF total[c] < fi[c].filesize
                  THEN ~FileExists(fi[c].filename)'
                  ELSE /\ FileExists(fi[c].filename)'
                       /\ Len(FileContent(fi[c].filename)') = fi[c].filesize]_vars

\* stop() cleared the flag after part of a whole body was written: the
\* transfer was given up, the output closed and deleted
C21_Witness ==
    /\ BackInLoop(1)
    /\ ~is_running
    /\ WholeBody(1)
    /\ cbProg[1] # <<>>
    /\ C15_Calls(1) = {}
    /\ peer[1] = "open"
    /\ ofs[1] = 0
    /\ ~FileExists(fi[1].filename)

\* the handler steps that are critical sections on clients_mutex: the
\* lock_guard blocks of lines 279-288 and 389-397, and removeClient, whose
\* whole body runs under the lock_guard of line 438
UnderMutex == {"fi_update", "rf_update", "remove"}

\* the step closes a descriptor, sends on c's socket or takes bytes from it
SocketOp(c) ==
    \/ fdt' # fdt
    \/ sent'[c] # sent[c]
    \/ Len(inbuf'[c]) < Len(inbuf[c])

(* C22: no critical section of a handler on clients_mutex performs a       *)
(* socket operation: the steps taken under the mutex change registry       *)
(* fields only.                                                            *)
C22_NoSocketOpUnderMutex ==
    [][\A c \in Conns :
         (hpc[c] \in UnderMutex /\ hpc'[c] # hpc[c]) => ~SocketOp(c)]_vars

\* the two registry updates of a transfer do keep to registry fields
C22_UpdatesTouchRegistryOnly ==
    [][\A c \in Conns :
         (hpc[c] \in {"fi_update", "rf_update"} /\ hpc'[c] # hpc[c]) =>
             ~SocketOp(c) /\ UNCHANGED <<connFd, peer, serr, diskVars>>]_vars

(* C23: once is_running is false every handler that exists, whatever it   *)
(* waits for, ends (reaches "closed"), and no handler takes up a FILE_INFO *)
(* message in a read made after the flag was cleared.                      *)
C23_HandlersEnd ==
    /\ \A c \in Conns : (~is_running /\ hpc[c] # "none") ~> hpc[c] = "closed"
    /\ [][\A c \in Conns :
            (~is_running /\ hpc'[c] = "fi_update") => hpc[c] = "fi_update"]_vars

\* the same, for as long as the process is not terminated by a signal
C23_HandlersEndUnlessTerminated ==
    /\ \A c \in Conns :
          (~is_running /\ hpc[c] # "none") ~> (hpc[c] = "closed" \/ killed)
    /\ [][\A c \in Conns :
            (~is_running /\ hpc'[c] = "fi_update") => hpc[c] = "fi_update"]_vars

\* the listener has just handled datagram disc'.last
C24_Handled == disc'.tick # disc.tick

(* C24: the listener adds a device, and calls the device-found callback,   *)
(* only for a datagram of type DISCOVERY_RESPONSE and service              *)
(* FILE_TRANSFER; the device added for a response that has no port member  *)
(* has port 5000, and such a response from an address not yet listed (its  *)
(* name absent or a string) does add a device; every other datagram leaves *)
(* the list as it is and calls no callback.                                *)
C24_ListenerAddsResponsesOnly ==
    [][C24_Handled =>
        LET d == disc'.last
            response == /\ d.doc = "object"
                        /\ d.type = JStr("DISCOVERY_RESPONSE")
                        /\ d.service = JStr("FILE_TRANSFER")
            added == disc'.discovered_devices # disc.discovered_devices
        IN  /\ ~response =>
                 /\ disc'.discovered_devices = disc.discovered_devices
                 /\ disc'.called = disc.called
            /\ (response /\ added) =>
                 /\ Len(disc'.discovered_devices) = Len(disc.discovered_devices) + 1
                 /\ SubSeq(disc'.discovered_devices, 1, Len(disc.discovered_devices))
                       = disc.discovered_devices
                 /\ disc'.discovered_devices[Len(disc'.discovered_devices)].ip_address = d.ip
                 /\ d.port = Absent =>
                       disc'.discovered_devices[Len(disc'.discovered_devices)].port = 5000
                 /\ disc.callback =>
                       /\ disc'.called # disc.called
                       /\ disc'.found =
                            disc'.discovered_devices[Len(disc'.discovered_devices)]
            /\ (response /\ ~added) => disc'.called = disc.called
            /\ (/\ response
                /\ d.port = Absent
                /\ d.name.k \in {"absent", "str"}
                /\ ~Known(disc.discovered_devices, d.ip)) => added]_vars

\* a response without a port was taken into the list with port 5000, after
\* datagrams of another service and of no JSON at all were passed over
C24_Witness ==
    /\ disc.last.type = JStr("DISCOVERY_RESPONSE")
    /\ disc.last.service = JStr("FILE_TRANSFER")
    /\ disc.last.port = Absent
    /\ Len(disc.discovered_devices) = 2
    /\ disc.discovered_devices[2].ip_address = disc.last.ip
    /\ disc.discovered_devices[2].port = 5000
    /\ disc.discovered_devices[1].port = 8080
    /\ disc.found = disc.discovered_devices[2]

\* c's handler thread was created (208), its ClientInfo is not yet stored
C25_Pending(c) == apc = "push" /\ acc = c

(* C25: the handler of an accepted session takes no step before the        *)
(* session is in the registry, and each lookup a handler makes under the   *)
(* mutex for its own socket number finds an entry.                         *)
C25_RegisteredBeforeHandlerRuns ==
    /\ [][\A c \in Conns :
            (hpc[c] # "none" /\ hpc'[c] # hpc[c]) => ~C25_Pending(c)]_vars
    /\ [][\A c \in Conns :
            (hpc[c] \in UnderMutex /\ hpc'[c] # hpc[c]) =>
                FindClient(clients, connFd[c]) # 0]_vars

\* a lookup made while the accept thread has yet to store the entry
C25_LookupBeforePush ==
    [][\A c \in Conns :
         (hpc[c] \in UnderMutex /\ hpc'[c] # hpc[c] /\ C25_Pending(c)) =>
             FindClient(clients, connFd[c]) # 0]_vars

\* the registry holds an entry of connection c
C26_Listed(c) == \E i \in 1..Len(clients) : clients[i].peer = c

(* C26: once a handler has ended its socket is closed, and its session's   *)
(* entry leaves the registry and stays out of it.                          *)
C26_ClosedIsRemoved ==
    /\ [](\A c \in Conns : hpc[c] = "closed" => ~SockOpen(c))
    /\ \A c \in Conns : hpc[c] = "closed" ~> [](~C26_Listed(c))

\* c's handler is past the registry update of a FILE_INFO and has read no
\* body byte yet
C27_Announced(c) ==
    \/ hpc[c] \in {"send_ready", "rf_open"}
    \/ hpc[c] = "rf_recv" /\ total[c] = 0

(* C27: from the registry update that follows a FILE_INFO until the first  *)
(* body byte is read, the session's registry entry shows the announced     *)
(* filename and 0 bytes received.                                          *)
C27_EntryShowsAnnouncedFile ==
    \A c \in Conns :
       C27_Announced(c) =>
          \A i \in 1..Len(clients) :
             clients[i].peer = c =>
                /\ clients[i].current_filename = fi[c].filename
                /\ clients[i].bytes_received = 0

\* the update itself is right for a session it finds in the registry
C27_UpdateSetsFile ==
    [][\A c \in Conns :
         (hpc[c] = "fi_update" /\ hpc'[c] = "send_ready"
             /\ FindClient(clients, connFd[c]) # 0) =>
            LET e == clients'[FindClient(clients, connFd[c])]
            IN  e.current_filename = fi[c].filename /\ e.bytes_received = 0]_vars

\* c's handler sends "complete" in this step
C28_SendsComplete(c) ==
    /\ hpc[c] = "send_complete"
    /\ Len(sent'[c]) > Len(sent[c])

(* C28: at the moment a handler sends "complete" the file of the stored    *)
(* name exists and holds the bytes of that handler's transfer, whatever    *)
(* other sessions do with a file of the same name.                         *)
C28_CompleteMeansStored ==
    [][\A c \in Conns :
         C28_SendsComplete(c) =>
            /\ FileExists(fi[c].filename)
            /\ FileContent(fi[c].filename) = Body(c, fi[c].xfer, fi[c].filesize)]_vars

\* the part of it that the deletion by a failing session breaks
C28_CompleteMeansFileExists ==
    [][\A c \in Conns :
         C28_SendsComplete(c) => FileExists(fi[c].filename)]_vars

\* the registry entries of the sessions other than c
C29_Others(cl, c) == SelectSeq(cl, LAMBDA e : e.peer # c)

(* C29: the removeClient call that ends handler c removes no entry of      *)
(* another session and closes no descriptor that belongs to another        *)
(* session's connection.                                                   *)
C29_RemoveOwnSessionOnly ==
    [][\A c \in Conns :
         (hpc[c] = "remove" /\ hpc'[c] = "closed") =>
            /\ C29_Others(clients', c) = C29_Others(clients, c)
            /\ \A f \in Fds : fdt[f] # c => fdt'[f] = fdt[f]]_vars

\* the tokens that c's handler takes from its socket in this step
C30_Taken(c) == SubSeq(inbuf[c], 1, Len(inbuf[c]) - Len(inbuf'[c]))

(* C30: the recv of the message loop (handleClient, line 243) never takes  *)
(* a byte of a file body: a client sends its body only to a server that    *)
(* is in receiveFile with the output open, and sends none after "ready"    *)
(* and "error".                                                            *)
C30_NoBodyByteInMessageLoop ==
    [][\A c \in Conns :
         (hpc[c] = "recv" /\ fdt[connFd[c]] = c) =>
            \A i \in 1..Len(C30_Taken(c)) : C30_Taken(c)[i].kind # "byte"]_vars

\* handler positions inside receiveFile after the output was opened
C31_Receiving == {"rf_recv", "rf_update", "rf_close", "rf_callback", "send_complete"}

\* values of remaining on both sides of the buffer size
C31_Remaining ==
    (1..(MaxSize + 1))
    \cup {BUFFER_SIZE - 1, BUFFER_SIZE, BUFFER_SIZE + 1, 2 * BUFFER_SIZE}

(* C31: the size of a read in receiveFile is the smaller of 8192 and the   *)
(* bytes still missing; a read takes at most that many bytes from the      *)
(* front of the socket and leaves the rest; the local count and every      *)
(* count written to the registry stay within the declared size; the body   *)
(* of a client that sends exactly the declared bytes takes no control text *)
(* with it.                                                                *)
C31_ReadWithinRemaining ==
    /\ [](\A r \in C31_Remaining :
             /\ to_receive(r) <= r
             /\ to_receive(r) <= BUFFER_SIZE
             /\ to_receive(r) \in {r, BUFFER_SIZE})
    /\ [](\A c \in Conns :
             hpc[c] \in C31_Receiving => total[c] <= fi[c].filesize)
    /\ [][\A c \in Conns :
            (hpc[c] = "rf_recv" /\ fdt[connFd[c]] = c
                /\ Len(inbuf'[c]) < Len(inbuf[c])) =>
               LET k == Len(inbuf[c]) - Len(inbuf'[c])
               IN  /\ k <= to_receive(fi[c].filesize - total[c])
                   /\ inbuf'[c] = SubSeq(inbuf[c], k + 1, Len(inbuf[c]))
                   /\ hpc'[c] = "rf_update"
                   /\ total'[c] = total[c] + k
                   /\ WholeBody(c) =>
                         \A i \in 1..k : inbuf[c][i].kind = "byte"]_vars
    /\ [][\A c \in Conns :
            (hpc[c] = "rf_update" /\ hpc'[c] # hpc[c] /\ clients' # clients) =>
               LET i == FindClient(clients, connFd[c])
               IN  /\ i # 0
                   /\ clients'[i].bytes_received = total[c]
                   /\ clients'[i].bytes_received <= fi[c].filesize]_vars

\* the whole body was taken while the next control text of the client is
\* already in the socket, and the text is still there
C31_Witness ==
    /\ hpc[1] = "rf_close"
    /\ is_running
    /\ fi[1].filesize > 0
    /\ total[1] = fi[1].filesize
    /\ inbuf[1] # <<>>
    /\ Head(inbuf[1]).kind = "text"

\* thread t is blocked in std::mutex::lock
C32_Waits(t) == mtx.at[t] \in MtxWanting

(* C32: clients_mutex never deadlocks.  No thread asks for the mutex while *)
(* it holds it; whoever holds it is inside a block that runs to its end    *)
(* without waiting for another thread, so a thread that waits for the      *)
(* mutex can get it; the callbacks run, and stop() waits for the accept    *)
(* thread, without the mutex; and the mutex is given back whenever it was  *)
(* taken.                                                                  *)
C32_NoMutexDeadlock ==
    /\ [](\A t \in MtxThreads :
             /\ C32_Waits(t) => mtx.holder # t
             /\ mtx.at[t] \in {"progress_cb", "file_cb", "join"} => mtx.holder # t
             /\ mtx.holder = t <=> mtx.at[t] \in MtxHolding)
    /\ [](mtx.holder # "none" => ENABLED M_Release(mtx.holder))
    /\ []((\E t \in MtxThreads : C32_Waits(t)) =>
             \/ \E t \in MtxThreads : ENABLED M_Acquire(t)
             \/ \E t \in MtxThreads : ENABLED M_Release(t))
    /\ \A t \in MtxThreads : (mtx.holder = t) ~> (mtx.holder # t)

\* a progress callback calls getConnectedClients and holds the mutex while
\* stop() and the accept thread wait for it
C32_Witness ==
    /\ mtx.at["h1"] = "pcb_held"
    /\ mtx.holder = "h1"
    /\ mtx.at["stop"] = "close_lock"
    /\ mtx.at["acc"] = "push_lock"
    /\ mtx.at["api"] = "get_lock"

\* c's transfer has left the loop of receiveFile with all its bytes
C33_Completed(c) ==
    /\ fi[c].filesize > 0
    /\ \/ hpc[c] \in {"rf_callback", "send_complete"}
       \/ C15_Calls(c) # {}

(* C33: the percentages given to the progress callback during a transfer   *)
(* are multiples of 10 between 0 and 100 and each is greater than the one  *)
(* before; when a transfer of a file that is not empty has taken all its   *)
(* bytes, 100 was reported once and is the last value reported.            *)
C33_ProgressReports ==
    \A c \in Conns :
       LET p == cbProg[c]
       IN  /\ \A i \in 1..Len(p) : p[i] \in 0..100 /\ p[i] % 10 = 0
           /\ \A i, j \in 1..Len(p) : i < j => p[i] < p[j]
           /\ C33_Completed(c) =>
                 /\ p # <<>>
                 /\ p[Len(p)] = 100
                 /\ Cardinality({i \in 1..Len(p) : p[i] = 100}) = 1

\* a file of several bytes was received: a report at 50 and the one at 100
C33_Witness ==
    /\ C33_Completed(1)
    /\ fi[1].filesize > 2
    /\ cbProg[1] = <<50, 100>>
    /\ C15_Calls(1) # {}

\* the read that c's handler is blocked in returns at its timeout
C34_TimesOut(c) ==
    /\ ~killed
    /\ is_running
    /\ \/ hpc[c] = "recv"
       \/ hpc[c] = "rf_recv" /\ total[c] < fi[c].filesize
    /\ RecvOutcome(connFd[c]) = "timeout"

(* C34: when a read of the message loop or of receiveFile times out, the   *)
(* handler has no step that changes anything (its position, its byte       *)
(* count, the registry, the output file, what was sent), and a transfer    *)
(* whose read timed out still takes all its bytes once the client has      *)
(* sent them.                                                              *)
C34_TimeoutChangesNothing ==
    /\ [](\A c \in Conns : C34_TimesOut(c) => ~ENABLED <<Handler(c)>>_vars)
    /\ \A c \in Conns :
          (C34_TimesOut(c) /\ hpc[c] = "rf_recv") ~>
              (hpc[c] \in {"rf_callback", "send_complete"} \/ C15_Calls(c) # {})

\* a read of receiveFile times out in the middle of a body
C34_Witness ==
    /\ C34_TimesOut(1)
    /\ hpc[1] = "rf_recv"
    /\ total[1] > 0
    /\ cbProg[1] # <<>>
    /\ peer[1] = "open"

(* C35: a FileInfo with filesize 0 and an output that opens completes     *)
(* without reading a body byte: receiveFile never enters its loop body,   *)
(* takes nothing from the socket and reports no progress; it closes the   *)
(* empty output, calls the file-received callback with 0 bytes, sends     *)
(* "complete" after "ready" and "receiving" and returns to the message    *)
(* loop with the empty file stored.                                       *)
C35_Empty(c) ==
    /\ fi[c].filesize = 0
    /\ hpc[c] \in {"rf_recv", "rf_close", "rf_callback", "send_complete"}

C35_EmptyFileCompletes ==
    /\ [](\A c \in Conns :
            /\ hpc[c] = "rf_update" => fi[c].filesize > 0
            /\ C35_Empty(c) =>
                  /\ total[c] = 0
                  /\ lastPct[c] = -1
                  /\ FileExists(fi[c].filename)
                  /\ FileContent(fi[c].filename) = <<>>
            /\ (BackInLoop(c) /\ Reported(c) /\ fi[c].filesize = 0) =>
                  /\ FileExists(fi[c].filename)
                  /\ FileContent(fi[c].filename) = <<>>
                  /\ cbFile[c][Len(cbFile[c])].size = 0
                  /\ Intact(c) =>
                        Since(c) = <<Status("ready", ""),
                                     Status("receiving", ""),
                                     Status("complete", fi[c].filename)>>)
    /\ [][\A c \in Conns :
            (fi[c].filesize = 0 /\ hpc'[c] # hpc[c]) =>
               /\ (hpc[c] = "rf_open" /\ fi[c].filename \in FileNames
                      /\ ~SigPipe(connFd[c])) =>
                     /\ hpc'[c] = "rf_recv"
                     /\ Intact(c)' =>
                           sent'[c] = Append(sent[c], Status("receiving", ""))
               /\ C35_Empty(c) =>
                     /\ inbuf' = inbuf
                     /\ cbProg' = cbProg
               /\ hpc[c] = "rf_recv" =>
                     hpc'[c] = "rf_close" /\ cbFile' = cbFile
               /\ hpc[c] = "rf_close" =>
                     /\ hpc'[c] = "rf_callback"
                     /\ ofs'[c] = 0
                     /\ disk' = disk
               /\ hpc[c] = "rf_callback" =>
                     /\ hpc'[c] = "send_complete"
                     /\ cbFile'[c] = Append(cbFile[c],
                                            [filename |-> fi[c].filename,
                                             size |-> 0,
                                             xfer |-> fi[c].xfer])
               /\ (hpc[c] = "send_complete" /\ ~SigPipe(connFd[c])) =>
                     /\ hpc'[c] = "recv"
                     /\ Intact(c)' =>
                           sent'[c] = Append(sent[c],
                                   Status("complete", fi[c].filename))]_vars

\* an empty file has been announced, stored and acknowledged
C35_Witness ==
    /\ Intact(1)
    /\ BackInLoop(1)
    /\ Reported(1)
    /\ fi[1].filesize = 0
    /\ cbProg[1] = <<>>
    /\ FileExists(fi[1].filename)
    /\ Len(Since(1)) = 3

(* C36: once stop() has run on a started server the listening socket is   *)
(* closed for good: stop() sets server_fd to -1, no step gives it a value *)
(* again, every later start() returns false and changes nothing, and the  *)
(* server is never running again.                                         *)
C36_Closed == server_fd < 0

C36_NoRestartAfterStop ==
    /\ [](C36_Closed => ~is_running)
    /\ [](lastCall = "stopped" => C36_Closed)
    /\ [][(is_running /\ ~is_running') => server_fd' = -1]_vars
    /\ [][C36_Closed => (server_fd' = server_fd /\ ~is_running')]_vars
    /\ [][(Start /\ C36_Closed) =>
            /\ lastCall' = "start_fail"
            /\ UNCHANGED <<is_running, server_fd, bound, apc, acc, clients,
                           hpc, sockVars>>]_vars

\* start() was called after a completed stop() and failed
C36_Witness ==
    /\ lastCall = "start_fail"
    /\ C36_Closed
    /\ bound
    /\ spc = "idle"
    /\ ~is_running
    /\ apc = "none"

====
